---- MODULE Spec2Model ----
(***************************************************************************)
(* Model of the ALE event registry (EventManager): three handler stores    *)
(* keyed by global / entry / unique event keys, registration, the cancel   *)
(* operations, the Trigger* fan-out with shot-limit pruning, and the       *)
(* Initialize / Shutdown life cycle.                                       *)
(*                                                                         *)
(* A Lua callback is modelled by the outcome of one invocation, drawn      *)
(* freshly at every call: it throws, returns an invalid result, or returns *)
(* a valid result carrying nothing, a value of the requested ReturnType,   *)
(* or a value of another type.                                             *)
(***************************************************************************)
EXTENDS Integers, Sequences, FiniteSets, TLC

(* ------------------------------ bounds --------------------------------- *)

\* Register* calls made over the life of the process.
MaxRegs == 2

\* Cap on callCount, so that a handler with shots = 0 stays finite.
MaxCalls == 2

(* ------------------------------ inputs --------------------------------- *)

\* Event enumerations used as the EventEnum template argument.
EventEnums == {"PlayerEvent", "WorldEvent"}

\* Enumerations used with the entry and the unique store.
ObjectEnums == {"CreatureEvent"}

\* Numeric enum values; both enumerations define the value 1.
EventTypes == {1}

Entries == {1, 2}

Guids == {1, 2}

ShotValues == {0, 1, 2}

\* int32 stateId = -1 : the default argument of Register*Event.
DefaultStateId == -1

StateIds == {DefaultStateId, 1}

HandlerIds == 1 .. MaxRegs

\* Values a caller passes as defaultValue.
DefaultValues == {0, 1}

\* What one invocation of a Lua callback does: it throws, yields an invalid
\* result, or yields a valid result that carries nothing ("none"), a value
\* that is not of the requested ReturnType ("other"), or a ReturnType value.
Outcomes == {"throw", "invalid", "none", "other", "v1", "v2"}

\* result.valid()
valid(o) == o \notin {"throw", "invalid"}

\* result.return_count()
return_count(o) == IF o \in {"throw", "invalid", "none"} THEN 0 ELSE 1

\* sol::optional<ReturnType> luaReturn = result; has a value only when the
\* first returned value converts to ReturnType.
HasValue(o) == o \in {"v1", "v2"}

LuaValue(o) == IF o = "v1" THEN 1 ELSE 2

(* ------------------------------- keys ---------------------------------- *)

\* typeid(EventEnum).hash_code(): distinct for the distinct enumerations.
typeid_hash_code(e) ==
    CASE e = "PlayerEvent" -> 101
      [] e = "WorldEvent" -> 202
      [] e = "CreatureEvent" -> 303

\* The key without the enumeration's type hash.
GlobalEventKey_NoCategory(e, t) == [eventCategory |-> 0, eventType |-> t]

GlobalEventKey(e, t) ==
    [eventCategory |-> typeid_hash_code(e), eventType |-> t]

EntryEventKey(e, t, entry) ==
    [eventCategory |-> typeid_hash_code(e), eventType |-> t, entry |-> entry]

UniqueEventKey(e, t, guid) ==
    [eventCategory |-> typeid_hash_code(e), eventType |-> t, guid |-> guid]

\* What a caller names in a Register*, Trigger* or Cancel*Event call: the
\* store, the enumeration, the enum value and the entry or guid (0: none).
Event(store, e, t, n) == [store |-> store, enum |-> e, type |-> t, id |-> n]

NoEvent == Event("none", "none", 0, 0)

GlobalEvents == {Event("global", e, t, 0) : e \in EventEnums, t \in EventTypes}

EntryEvents ==
    {Event("entry", e, t, n) : e \in ObjectEnums, t \in EventTypes, n \in Entries}

UniqueEvents ==
    {Event("unique", e, t, g) : e \in ObjectEnums, t \in EventTypes, g \in Guids}

\* The key the Register*, Trigger* and Cancel*Event templates build.
KeyOf(ev) ==
    CASE ev.store = "global" -> GlobalEventKey(ev.enum, ev.type)
      [] ev.store = "entry" -> EntryEventKey(ev.enum, ev.type, ev.id)
      [] ev.store = "unique" -> UniqueEventKey(ev.enum, ev.type, ev.id)

(* ------------------------------ state ---------------------------------- *)

VARIABLES
    m_globalHandlers,   \* GlobalEventKey -> sequence of handlers
    m_entryHandlers,    \* EntryEventKey  -> sequence of handlers
    m_uniqueHandlers,   \* UniqueEventKey -> sequence of handlers
    m_nextHandlerId,
    m_initialized,
    regCount,           \* history: Register* calls made so far
    maxIssued,          \* history: largest handlerId returned so far
    last                \* the call just made and what it returned

\* TimedEventManager, one instance.
VARIABLES
    m_events,           \* eventId -> TimedEvent
    m_objectEvents,     \* ObjectGuid -> set of eventIds
    m_globalEvents,     \* set of eventIds
    m_nextEventId,
    timedCount,         \* history: Register*Event calls made so far
    timedIssued,        \* history: largest eventId returned so far
    timedLast           \* the call just made and what it did

\* A Trigger* call / an Update* call whose loop is in progress, for the
\* executions in which callbacks call back into the manager.
VARIABLES
    trigger,
    update

\* The host: the players that are logged in, the map update threads that
\* are inside a hook, and the owner of the mutex of GetLuaMutex.
VARIABLES
    online,
    threads,
    s_luaMutex

\* A second scheduler, of the variant Eclipse::Core::TimedEventManager, and
\* the record of the last call made on it.
VARIABLES
    eclipse,
    eclipseLast

\* ALEManager and StateManager, and the record of the last ALEManager call.
VARIABLES
    aleManager,
    stateManager,
    aleLast

\* BytecodeCache, the script files it is asked about, and the record of the
\* last call made on it.
VARIABLES
    m_cache,            \* filepath -> CompiledBytecode
    m_timestampCache,   \* filepath -> std::time_t
    files,              \* filepath -> st_mtime of the file, 0 when stat fails
    cacheLast

evars == <<m_globalHandlers, m_entryHandlers, m_uniqueHandlers,
           m_nextHandlerId, m_initialized, regCount, maxIssued, last>>

tvars == <<m_events, m_objectEvents, m_globalEvents, m_nextEventId,
           timedCount, timedIssued, timedLast>>

hvars == <<online, threads, s_luaMutex>>

mvars == <<aleManager, stateManager, aleLast>>

cvars == <<m_cache, m_timestampCache, files, cacheLast>>

xvars == <<eclipse, eclipseLast, mvars, cvars>>

\* What no EventManager method called from outside a callback touches.
EventManagerFrame == <<tvars, trigger, update, hvars, xvars>>

\* What no TimedEventManager method called from outside a callback touches.
TimedEventManagerFrame == <<evars, trigger, update, hvars, xvars>>

vars == <<evars, tvars, trigger, update, hvars, xvars>>

\* The empty unordered_map.
EmptyMap == [k \in {} |-> <<>>]

\* pair<uint64, EventHandler>.  function identifies the owned callback.
\* History fields: event is what the handler was registered for, ran is how
\* often its callback was invoked and returned a valid result.
EventHandler(id, func, shotCount, sid, ev) ==
    [id |-> id, function |-> func, shots |-> shotCount,
     callCount |-> 0, stateId |-> sid, event |-> ev, ran |-> 0]

ShouldExecute(h) == h.shots = 0 \/ h.callCount < h.shots

\* IsExpired with > for >= : a handler at its limit is kept.
IsExpired_Above(h) == h.shots > 0 /\ h.callCount > h.shots

IsExpired(h) == h.shots > 0 /\ h.callCount >= h.shots

\* The record of one call: its name, the event named, a further argument,
\* defaultValue, what each callback of the bucket did, which callbacks were
\* invoked, and the returned value.
Op(op, ev, arg, def, outcomes, called, ret) ==
    [op |-> op, event |-> ev, arg |-> arg, def |-> def,
     outcomes |-> outcomes, called |-> called, ret |-> ret]

\* The record of one TimedEventManager call: its name, the eventId, object
\* and diff given, the events whose callback was invoked, the events for
\* which an error was logged, the events removed for having used up their
\* repeats, and the returned value.
TimedOp(op, eventId, obj, diff, invoked, reported, expired, ret) ==
    [op |-> op, eventId |-> eventId, obj |-> obj, diff |-> diff,
     invoked |-> invoked, reported |-> reported, expired |-> expired,
     ret |-> ret]

\* WorldObject* obj = nullptr
NullObject == [guid |-> 0, kind |-> "nullptr"]

\* TimedEventManager::TimedEventManager
TimedInit ==
    /\ m_events = [id \in {} |-> 0]
    /\ m_objectEvents = [guid \in {} |-> {}]
    /\ m_globalEvents = {}
    /\ m_nextEventId = 1
    /\ timedCount = 0
    /\ timedIssued = 0
    /\ timedLast = TimedOp("TimedEventManager", 0, NullObject, 0, {}, {}, {}, 0)

\* No loop of a Trigger* / Update* call is in progress.
Idle == [active |-> FALSE]

\* Map update threads of the host.
Threads == {1, 2}

\* A thread that is in no hook, and the mutex when no thread owns it.
Outside == [pc |-> "outside"]

Unowned == [owner |-> 0, count |-> 0]

HostInit ==
    /\ online = {}
    /\ threads = [t \in Threads |-> Outside]
    /\ s_luaMutex = Unowned

\* Eclipse::Core::TimedEventManager after its constructor: the same
\* containers with vectors for the two indexes, and the shared removal
\* buffer m_eventsToRemove.
EclipseInit ==
    /\ eclipse = [m_events |-> [id \in {} |-> 0],
                  m_objectEvents |-> [guid \in {} |-> <<>>],
                  m_globalEvents |-> <<>>,
                  m_eventsToRemove |-> <<>>,
                  m_nextEventId |-> 1]
    /\ eclipseLast = TimedOp("TimedEventManager", 0, NullObject, 0, {}, {}, {}, 0)

\* StateId of the master state.
MASTER_STATE_ID == -1

\* The record of one ALEManager call: its name, what the configuration, the
\* creation of the master state and the loading of the scripts did in it,
\* and the value returned.
ManagerOp(op, enabled, created, loaded, ret) ==
    [op |-> op, enabled |-> enabled, created |-> created, loaded |-> loaded,
     ret |-> ret]

\* ALEManager() = default with m_initialized = false; StateManager with no
\* state.
ManagerInit ==
    /\ aleManager = [m_initialized |-> FALSE]
    /\ stateManager = [m_initialized |-> FALSE, m_states |-> {}]
    /\ aleLast = ManagerOp("ALEManager", FALSE, FALSE, FALSE, FALSE)

\* The script files.
Filepaths == {"a.lua", "b.lua"}

\* The largest st_mtime a file comes to have, in seconds; the files start at
\* 1, and 0 is what GetFileModTime returns when stat fails.
MaxModTime == 3

\* The record of one BytecodeCache call: its name, the filepath, whether it
\* returned an entry, the last_modified of the entry returned, and the
\* st_mtime the file had at the call.
CacheOp(op, filepath, hit, stamp, mtime) ==
    [op |-> op, filepath |-> filepath, hit |-> hit, stamp |-> stamp,
     mtime |-> mtime]

\* BytecodeCache(): nothing cached; every file exists.
CacheInit ==
    /\ m_cache = [f \in {} |-> 0]
    /\ m_timestampCache = [f \in {} |-> 0]
    /\ files = [f \in Filepaths |-> 1]
    /\ cacheLast = CacheOp("BytecodeCache", "", FALSE, 0, 0)

Init ==
    /\ TimedInit
    /\ HostInit
    /\ EclipseInit
    /\ ManagerInit
    /\ CacheInit
    /\ trigger = Idle
    /\ update = Idle
    /\ m_globalHandlers = EmptyMap
    /\ m_entryHandlers = EmptyMap
    /\ m_uniqueHandlers = EmptyMap
    /\ m_nextHandlerId = 1
    /\ m_initialized = FALSE
    /\ regCount = 0
    /\ maxIssued = 0
    /\ last = Op("EventManager", NoEvent, 0, 0, <<>>, <<>>, 0)

(* --------------------------- registration ------------------------------ *)

\* handlerMap[key].emplace_back(handlerId, EventHandler(...))
EmplaceBack(handlerMap, key, h) ==
    IF key \in DOMAIN handlerMap
    THEN [handlerMap EXCEPT ![key] = Append(@, h)]
    ELSE [k \in DOMAIN handlerMap \cup {key} |->
            IF k = key THEN <<h>> ELSE handlerMap[k]]

\* return m_nextHandlerId++ : the value returned.
GenerateHandlerId == m_nextHandlerId

\* The part common to the three Register*Event templates, for a process
\* that makes at most cap Register* calls.
RegisteredUpTo(cap, op, handlerMap, ev, shots, sid) ==
    /\ regCount < cap
    /\ handlerMap' =
           EmplaceBack(handlerMap, KeyOf(ev),
                       EventHandler(GenerateHandlerId, regCount + 1, shots, sid, ev))
    /\ m_nextHandlerId' = m_nextHandlerId + 1
    /\ regCount' = regCount + 1
    /\ maxIssued' = IF GenerateHandlerId > maxIssued
                    THEN GenerateHandlerId ELSE maxIssued
    /\ last' = Op(op, ev, sid, 0, <<>>, <<>>, GenerateHandlerId)
    /\ UNCHANGED m_initialized

Registered(op, handlerMap, ev, shots, sid) ==
    RegisteredUpTo(MaxRegs, op, handlerMap, ev, shots, sid)

\* Register*Event(eventType[, entry | guid], handler, shots, stateId) with
\* shots drawn from shotSet and stateId from sidSet.
RegisterGlobalEventWith(shotSet, sidSet) ==
    \E ev \in GlobalEvents, s \in shotSet, sid \in sidSet :
      /\ Registered("RegisterGlobalEvent", m_globalHandlers, ev, s, sid)
      /\ UNCHANGED <<m_entryHandlers, m_uniqueHandlers>>
      /\ UNCHANGED EventManagerFrame

RegisterEntryEventWith(shotSet, sidSet) ==
    \E ev \in EntryEvents, s \in shotSet, sid \in sidSet :
      /\ Registered("RegisterEntryEvent", m_entryHandlers, ev, s, sid)
      /\ UNCHANGED <<m_globalHandlers, m_uniqueHandlers>>
      /\ UNCHANGED EventManagerFrame

RegisterUniqueEventWith(shotSet, sidSet) ==
    \E ev \in UniqueEvents, s \in shotSet, sid \in sidSet :
      /\ Registered("RegisterUniqueEvent", m_uniqueHandlers, ev, s, sid)
      /\ UNCHANGED <<m_globalHandlers, m_entryHandlers>>
      /\ UNCHANGED EventManagerFrame

\* Registration with the default stateId, as the Lua API registers.
RegisterGlobalEvent == RegisterGlobalEventWith(ShotValues, {DefaultStateId})

RegisterEntryEvent == RegisterEntryEventWith(ShotValues, {DefaultStateId})

RegisterUniqueEvent == RegisterUniqueEventWith(ShotValues, {DefaultStateId})

\* Registration on behalf of a given Lua state.
RegisterGlobalEventForState == RegisterGlobalEventWith(ShotValues, StateIds)

RegisterEntryEventForState == RegisterEntryEventWith(ShotValues, StateIds)

RegisterUniqueEventForState == RegisterUniqueEventWith(ShotValues, StateIds)

(* ------------------------------ trigger -------------------------------- *)

\* ExecuteHandler counting the call before the callback has returned.
ExecuteHandler_CountsFirst(h, o) ==
    IF ~(h.shots = 0 \/ h.callCount < h.shots)
    THEN [called |-> FALSE, ok |-> FALSE, handler |-> h]
    ELSE IF o \in {"throw", "invalid"}
    THEN [called |-> TRUE, ok |-> FALSE,
          handler |-> [h EXCEPT !.callCount = @ + 1]]
    ELSE [called |-> TRUE, ok |-> TRUE,
          handler |-> [h EXCEPT !.callCount = @ + 1]]

\* ExecuteHandler without the return on an invalid result.
ExecuteHandler_InvalidCounts(h, o) ==
    IF ~(h.shots = 0 \/ h.callCount < h.shots)
    THEN [called |-> FALSE, ok |-> FALSE, handler |-> h]
    ELSE IF o = "throw"
    THEN [called |-> TRUE, ok |-> FALSE, handler |-> h]
    ELSE [called |-> TRUE, ok |-> TRUE,
          handler |-> [h EXCEPT !.callCount = @ + 1]]

\* One call of ExecuteHandler on handler h whose callback does o.
ExecuteHandler(h, o) ==
    IF ~ShouldExecute(h)
    THEN [called |-> FALSE, ok |-> FALSE, handler |-> h]
    ELSE IF o = "throw"
    THEN [called |-> TRUE, ok |-> FALSE, handler |-> h]
    ELSE IF ~valid(o)
    THEN [called |-> TRUE, ok |-> FALSE, handler |-> h]
    ELSE [called |-> TRUE, ok |-> TRUE,
          handler |-> [h EXCEPT !.callCount = @ + 1]]

RemoveExpiredHandlers(handlers) ==
    SelectSeq(handlers, LAMBDA h : ~IsExpired(h))

\* History: handler h after its callback was or was not invoked and did o.
Ran(h, called, o) ==
    IF called /\ o \notin {"throw", "invalid"}
    THEN [h EXCEPT !.ran = @ + 1] ELSE h

\* The loop of Trigger*Event over one bucket, and the pruning after it.
TriggerScan(handlers, outcomes) ==
    LET r == [i \in 1 .. Len(handlers) |->
                 ExecuteHandler(handlers[i], outcomes[i])]
    IN [executed |-> Cardinality({i \in 1 .. Len(handlers) : r[i].ok}),
        called |-> [i \in 1 .. Len(handlers) |-> r[i].called],
        handlers |-> RemoveExpiredHandlers(
                        [i \in 1 .. Len(handlers) |->
                            Ran(r[i].handler, r[i].called, outcomes[i])])]

\* The loop body reading the result without the sol::optional check.
WithReturnBody_Unchecked(h, o, rv) ==
    IF ~(h.shots = 0 \/ h.callCount < h.shots)
    THEN [called |-> FALSE, handler |-> h, returnValue |-> rv]
    ELSE IF o \in {"throw", "invalid"}
    THEN [called |-> TRUE, handler |-> h, returnValue |-> rv]
    ELSE [called |-> TRUE,
          handler |-> [h EXCEPT !.callCount = @ + 1],
          returnValue |-> IF return_count(o) = 0 THEN rv
                          ELSE IF HasValue(o) THEN LuaValue(o) ELSE 0]

\* The loop body reading a value out of a failed result.
WithReturnBody_ErrorResets(h, o, rv) ==
    IF ~(h.shots = 0 \/ h.callCount < h.shots)
    THEN [called |-> FALSE, handler |-> h, returnValue |-> rv]
    ELSE IF o \in {"throw", "invalid"}
    THEN [called |-> TRUE, handler |-> h, returnValue |-> 0]
    ELSE [called |-> TRUE,
          handler |-> [h EXCEPT !.callCount = @ + 1],
          returnValue |-> IF return_count(o) > 0 /\ HasValue(o)
                          THEN LuaValue(o) ELSE rv]

\* The loop body of Trigger*EventWithReturn for handler h, running result rv.
WithReturnBody(h, o, rv) ==
    IF ~ShouldExecute(h)
    THEN [called |-> FALSE, handler |-> h, returnValue |-> rv]
    ELSE IF o = "throw"
    THEN [called |-> TRUE, handler |-> h, returnValue |-> rv]
    ELSE IF ~valid(o)
    THEN [called |-> TRUE, handler |-> h, returnValue |-> rv]
    ELSE [called |-> TRUE,
          handler |-> [h EXCEPT !.callCount = @ + 1],
          returnValue |-> IF return_count(o) > 0 /\ HasValue(o)
                          THEN LuaValue(o) ELSE rv]

\* The fold started from a value-initialised returnValue.
RECURSIVE ReturnFold_FromZero(_, _, _, _)
ReturnFold_FromZero(handlers, outcomes, i, rv) ==
    IF i > Len(handlers) THEN (IF i = 1 THEN 0 ELSE rv)
    ELSE LET o == outcomes[i]
             start == IF i = 1 THEN 0 ELSE rv
             h == handlers[i]
         IN ReturnFold_FromZero(handlers, outcomes, i + 1,
               IF (h.shots = 0 \/ h.callCount < h.shots)
                  /\ o \in {"v1", "v2"}
               THEN LuaValue(o) ELSE start)

\* returnValue after the loop has run from handler i on.
RECURSIVE ReturnFold(_, _, _, _)
ReturnFold(handlers, outcomes, i, rv) ==
    IF i > Len(handlers) THEN rv
    ELSE ReturnFold(handlers, outcomes, i + 1,
                    WithReturnBody(handlers[i], outcomes[i], rv).returnValue)

\* The loop of Trigger*EventWithReturn over one bucket, and the pruning.
WithReturnScan(handlers, outcomes, defaultValue) ==
    LET r == [i \in 1 .. Len(handlers) |->
                 WithReturnBody(handlers[i], outcomes[i], defaultValue)]
    IN [returnValue |-> ReturnFold(handlers, outcomes, 1, defaultValue),
        called |-> [i \in 1 .. Len(handlers) |-> r[i].called],
        handlers |-> RemoveExpiredHandlers(
                        [i \in 1 .. Len(handlers) |->
                            Ran(r[i].handler, r[i].called, outcomes[i])])]

Bucket(handlerMap, key) ==
    IF key \in DOMAIN handlerMap THEN handlerMap[key] ELSE <<>>

CanCall(handlers) ==
    \A i \in 1 .. Len(handlers) : handlers[i].callCount < MaxCalls

\* What a callback may do in a call that ignores what it returns.
PlainOutcomes == {"throw", "invalid", "none"}

\* The lookup made with operator[] : a missing key gets an empty bucket.
Triggered_Allocates(op, handlerMap, ev) ==
    LET key == KeyOf(ev)
        handlers == Bucket(handlerMap, key)
    IN
    /\ CanCall(handlers)
    /\ \E outcomes \in [1 .. Len(handlers) -> PlainOutcomes] :
         LET s == TriggerScan(handlers, outcomes) IN
         /\ handlerMap' = [k \in DOMAIN handlerMap \cup {key} |->
                              IF k = key THEN s.handlers ELSE handlerMap[k]]
         /\ last' = Op(op, ev, 0, 0, outcomes, s.called, s.executed)
    /\ UNCHANGED <<m_nextHandlerId, m_initialized, regCount, maxIssued>>

\* The part common to the three Trigger*Event templates.
Triggered(op, handlerMap, ev) ==
    LET key == KeyOf(ev)
        handlers == Bucket(handlerMap, key)
    IN
    /\ CanCall(handlers)
    /\ \E outcomes \in [1 .. Len(handlers) -> PlainOutcomes] :
         IF key \notin DOMAIN handlerMap
         THEN /\ last' = Op(op, ev, 0, 0, outcomes, <<>>, 0)
              /\ handlerMap' = handlerMap
         ELSE LET s == TriggerScan(handlers, outcomes) IN
              /\ handlerMap' = [handlerMap EXCEPT ![key] = s.handlers]
              /\ last' = Op(op, ev, 0, 0, outcomes, s.called, s.executed)
    /\ UNCHANGED <<m_nextHandlerId, m_initialized, regCount, maxIssued>>

TriggerGlobalEvent ==
    \E ev \in GlobalEvents :
      /\ Triggered("TriggerGlobalEvent", m_globalHandlers, ev)
      /\ UNCHANGED <<m_entryHandlers, m_uniqueHandlers>>
      /\ UNCHANGED EventManagerFrame

TriggerEntryEvent ==
    \E ev \in EntryEvents :
      /\ Triggered("TriggerEntryEvent", m_entryHandlers, ev)
      /\ UNCHANGED <<m_globalHandlers, m_uniqueHandlers>>
      /\ UNCHANGED EventManagerFrame

TriggerUniqueEvent ==
    \E ev \in UniqueEvents :
      /\ Triggered("TriggerUniqueEvent", m_uniqueHandlers, ev)
      /\ UNCHANGED <<m_globalHandlers, m_entryHandlers>>
      /\ UNCHANGED EventManagerFrame

\* The part common to the two Trigger*EventWithReturn templates.
TriggeredWithReturn(op, handlerMap, ev, defaultValue) ==
    LET key == KeyOf(ev)
        handlers == Bucket(handlerMap, key)
    IN
    /\ CanCall(handlers)
    /\ \E outcomes \in [1 .. Len(handlers) -> Outcomes] :
         IF key \notin DOMAIN handlerMap
         THEN /\ last' = Op(op, ev, 0, defaultValue, outcomes, <<>>, defaultValue)
              /\ handlerMap' = handlerMap
         ELSE LET s == WithReturnScan(handlers, outcomes, defaultValue) IN
              /\ handlerMap' = [handlerMap EXCEPT ![key] = s.handlers]
              /\ last' = Op(op, ev, 0, defaultValue, outcomes, s.called,
                            s.returnValue)
    /\ UNCHANGED EventManagerFrame
    /\ UNCHANGED <<m_nextHandlerId, m_initialized, regCount, maxIssued>>

TriggerGlobalEventWithReturn ==
    \E ev \in GlobalEvents, defaultValue \in DefaultValues :
      /\ TriggeredWithReturn("TriggerGlobalEventWithReturn", m_globalHandlers,
                             ev, defaultValue)
      /\ UNCHANGED <<m_entryHandlers, m_uniqueHandlers>>

TriggerEntryEventWithReturn ==
    \E ev \in EntryEvents, defaultValue \in DefaultValues :
      /\ TriggeredWithReturn("TriggerEntryEventWithReturn", m_entryHandlers,
                             ev, defaultValue)
      /\ UNCHANGED <<m_globalHandlers, m_uniqueHandlers>>

(* ------------------------------- cancel -------------------------------- *)

\* The erase done by moving the last handler into the freed position.
EraseFirst_SwapPop(handlers, handlerId) ==
    LET n == Len(handlers)
        hits == {i \in 1 .. n : handlers[i].id = handlerId}
    IN IF hits = {} THEN handlers
       ELSE LET i == CHOOSE x \in hits : \A y \in hits : x <= y
            IN [j \in 1 .. (n - 1) |->
                   IF j = i THEN handlers[n] ELSE handlers[j]]

\* handlers.erase(find_if(... pair.first == handlerId)): the first match.
RECURSIVE EraseFirst(_, _)
EraseFirst(handlers, handlerId) ==
    IF handlers = <<>> THEN <<>>
    ELSE IF Head(handlers).id = handlerId THEN Tail(handlers)
    ELSE <<Head(handlers)>> \o EraseFirst(Tail(handlers), handlerId)

\* Buckets of handlerMap that hold a handler with this id.
Holding(handlerMap, handlerId) ==
    {k \in DOMAIN handlerMap :
        \E i \in 1 .. Len(handlerMap[k]) : handlerMap[k][i].id = handlerId}

\* FindAndCancelHandler walks the unordered_map in its iteration order and
\* stops at the first bucket holding the id: `key` is that bucket.
FindAndCancelHandler(handlerMap, handlerId, key) ==
    [handlerMap EXCEPT ![key] = EraseFirst(@, handlerId)]

CancelEventById(handlerId) ==
      /\ IF Holding(m_globalHandlers, handlerId) # {}
         THEN \E key \in Holding(m_globalHandlers, handlerId) :
                /\ m_globalHandlers' =
                       FindAndCancelHandler(m_globalHandlers, handlerId, key)
                /\ last' = Op("CancelEvent", NoEvent, handlerId, 0, <<>>, <<>>, TRUE)
                /\ UNCHANGED <<m_entryHandlers, m_uniqueHandlers>>
         ELSE IF Holding(m_entryHandlers, handlerId) # {}
         THEN \E key \in Holding(m_entryHandlers, handlerId) :
                /\ m_entryHandlers' =
                       FindAndCancelHandler(m_entryHandlers, handlerId, key)
                /\ last' = Op("CancelEvent", NoEvent, handlerId, 0, <<>>, <<>>, TRUE)
                /\ UNCHANGED <<m_globalHandlers, m_uniqueHandlers>>
         ELSE IF Holding(m_uniqueHandlers, handlerId) # {}
         THEN \E key \in Holding(m_uniqueHandlers, handlerId) :
                /\ m_uniqueHandlers' =
                       FindAndCancelHandler(m_uniqueHandlers, handlerId, key)
                /\ last' = Op("CancelEvent", NoEvent, handlerId, 0, <<>>, <<>>, TRUE)
                /\ UNCHANGED <<m_globalHandlers, m_entryHandlers>>
         ELSE /\ last' = Op("CancelEvent", NoEvent, handlerId, 0, <<>>, <<>>, FALSE)
              /\ UNCHANGED <<m_globalHandlers, m_entryHandlers, m_uniqueHandlers>>
      /\ UNCHANGED <<m_nextHandlerId, m_initialized, regCount, maxIssued>>

CancelEvent ==
    \E handlerId \in HandlerIds :
      /\ CancelEventById(handlerId)
      /\ UNCHANGED EventManagerFrame

\* The erase taking every bucket with it.
EraseBucket_All(handlerMap, key) ==
    IF key \in DOMAIN handlerMap THEN EmptyMap ELSE handlerMap

\* handlerMap.erase(it) when the key is found.
EraseBucket(handlerMap, key) ==
    [k \in DOMAIN handlerMap \ {key} |-> handlerMap[k]]

CancelGlobalEventFor(ev) ==
    /\ m_globalHandlers' = EraseBucket(m_globalHandlers, KeyOf(ev))
    /\ last' = Op("CancelGlobalEvent", ev, 0, 0, <<>>, <<>>, 0)
    /\ UNCHANGED <<m_entryHandlers, m_uniqueHandlers, m_nextHandlerId,
                   m_initialized, regCount, maxIssued>>

CancelGlobalEvent ==
    \E ev \in GlobalEvents :
      /\ CancelGlobalEventFor(ev)
      /\ UNCHANGED EventManagerFrame

CancelEntryEvent ==
    \E ev \in EntryEvents :
      /\ m_entryHandlers' = EraseBucket(m_entryHandlers, KeyOf(ev))
      /\ UNCHANGED EventManagerFrame
      /\ last' = Op("CancelEntryEvent", ev, 0, 0, <<>>, <<>>, 0)
      /\ UNCHANGED <<m_globalHandlers, m_uniqueHandlers, m_nextHandlerId,
                     m_initialized, regCount, maxIssued>>

CancelUniqueEvent ==
    \E ev \in UniqueEvents :
      /\ m_uniqueHandlers' = EraseBucket(m_uniqueHandlers, KeyOf(ev))
      /\ UNCHANGED EventManagerFrame
      /\ last' = Op("CancelUniqueEvent", ev, 0, 0, <<>>, <<>>, 0)
      /\ UNCHANGED <<m_globalHandlers, m_entryHandlers, m_nextHandlerId,
                     m_initialized, regCount, maxIssued>>

\* The remove_if predicate with >= for == .
CancelStateHandlersInMap_AtLeast(handlerMap, stateId) ==
    [k \in DOMAIN handlerMap |->
        SelectSeq(handlerMap[k], LAMBDA h : ~(h.stateId >= stateId))]

\* The handlers of every bucket that survive the remove_if.
CancelStateHandlersInMap(handlerMap, stateId) ==
    [k \in DOMAIN handlerMap |->
        SelectSeq(handlerMap[k], LAMBDA h : ~(h.stateId = stateId))]

\* Handlers stored in handlerMap, over all its buckets.
MapSize(handlerMap) ==
    LET keys == DOMAIN handlerMap
        count[K \in SUBSET keys] ==
            IF K = {} THEN 0
            ELSE LET k == CHOOSE x \in K : TRUE
                 IN Len(handlerMap[k]) + count[K \ {k}]
    IN count[keys]

\* totalCancelled, the number CancelStateEvents logs, is kept as its result.
CancelStateEvents ==
    \E stateId \in StateIds :
      /\ m_globalHandlers' = CancelStateHandlersInMap(m_globalHandlers, stateId)
      /\ m_entryHandlers' = CancelStateHandlersInMap(m_entryHandlers, stateId)
      /\ m_uniqueHandlers' = CancelStateHandlersInMap(m_uniqueHandlers, stateId)
      /\ last' = Op("CancelStateEvents", NoEvent, stateId, 0, <<>>, <<>>,
                    (MapSize(m_globalHandlers) - MapSize(m_globalHandlers'))
                    + (MapSize(m_entryHandlers) - MapSize(m_entryHandlers'))
                    + (MapSize(m_uniqueHandlers) - MapSize(m_uniqueHandlers')))
      /\ UNCHANGED EventManagerFrame
      /\ UNCHANGED <<m_nextHandlerId, m_initialized, regCount, maxIssued>>

\* m_globalHandlers.clear(); m_entryHandlers.clear(); m_uniqueHandlers.clear()
ClearAll ==
    /\ m_globalHandlers' = EmptyMap
    /\ m_entryHandlers' = EmptyMap
    /\ m_uniqueHandlers' = EmptyMap

CancelAllEvents ==
    /\ ClearAll
    /\ UNCHANGED EventManagerFrame
    /\ last' = Op("CancelAllEvents", NoEvent, 0, 0, <<>>, <<>>, 0)
    /\ UNCHANGED <<m_nextHandlerId, m_initialized, regCount, maxIssued>>

(* ----------------------------- life cycle ------------------------------ *)

Initialize ==
    /\ IF m_initialized
       THEN UNCHANGED <<m_nextHandlerId, m_initialized>>
       ELSE /\ m_nextHandlerId' = 1
            /\ m_initialized' = TRUE
    /\ UNCHANGED EventManagerFrame
    /\ last' = Op("Initialize", NoEvent, 0, 0, <<>>, <<>>, TRUE)
    /\ UNCHANGED <<m_globalHandlers, m_entryHandlers, m_uniqueHandlers,
                   regCount, maxIssued>>

Shutdown ==
    /\ IF ~m_initialized
       THEN UNCHANGED <<m_globalHandlers, m_entryHandlers, m_uniqueHandlers,
                        m_initialized>>
       ELSE /\ ClearAll
            /\ m_initialized' = FALSE
    /\ UNCHANGED EventManagerFrame
    /\ last' = Op("Shutdown", NoEvent, 0, 0, <<>>, <<>>, 0)
    /\ UNCHANGED <<m_nextHandlerId, regCount, maxIssued>>

(* ======================= TimedEventManager ============================= *)

\* Register*Event calls made over the life of one TimedEventManager.
MaxTimed == 2

\* Saturation points of the two history counters of a TimedEvent.
MaxFired == 2

MaxAge == 4

\* uint32 delay, uint32 diff, uint32 repeats (0 = infinite)
Delays == {0, 2}

Diffs == {1, 2}

Repeats == {0, 1, 2}

\* ObjectGuid of the objects timed events are bound to.
ObjectGuids == {1, 2}

\* TimedEventObjectType of an object-bound event.
ObjectTypes == {"PLAYER", "CREATURE"}

\* The live WorldObject* handed to UpdateObjectEvents: its GUID and what
\* ToPlayer() / ToCreature() / ToGameObject() resolve it to.
WorldObjects == [guid : ObjectGuids, kind : ObjectTypes]

EventIds == 1 .. MaxTimed

\* One invocation of a timed callback: it returns a valid result, returns
\* an invalid result, or throws.
TimedOutcomes == {"ok", "invalid", "throw"}

Min(a, b) == IF a < b THEN a ELSE b

\* uint32 elapsed, delay, diff: the width, scaled down to UInt32Bits bits.
UInt32Bits == 4

UInt32Modulus == 2 ^ UInt32Bits

\* a + b in uint32
AddUInt32(a, b) == (a + b) % UInt32Modulus

\* struct TimedEvent.  callback identifies the owned Lua function.  History,
\* both saturating: fired counts the invocations of the callback, age sums
\* the diffs applied to the event since it was registered or last came due.
TimedEvent(eventId, cb, delayMs, repeatCount, guid, type) ==
    [id |-> eventId, callback |-> cb, delay |-> delayMs,
     repeats |-> repeatCount, remainingRepeats |-> repeatCount, elapsed |-> 0,
     objectGuid |-> guid, objectType |-> type, fired |-> 0, age |-> 0]

\* ObjectGuid::Empty
EmptyGuid == 0

\* The three containers of a TimedEventManager.
Containers(events, objectEvents, globalEvents) ==
    [events |-> events, objectEvents |-> objectEvents,
     globalEvents |-> globalEvents]

Current == Containers(m_events, m_objectEvents, m_globalEvents)

\* m_events.emplace(eventId, event): no effect when the key is present.
Emplace(events, eventId, event) ==
    IF eventId \in DOMAIN events THEN events
    ELSE [k \in DOMAIN events \cup {eventId} |->
             IF k = eventId THEN event ELSE events[k]]

\* m_events.erase(eventId)
EraseEvents(events, ids) == [k \in DOMAIN events \ ids |-> events[k]]

\* m_objectEvents[objectGuid].insert(eventId)
IndexInsert(objectEvents, guid, eventId) ==
    [g \in DOMAIN objectEvents \cup {guid} |->
        IF g = guid
        THEN (IF g \in DOMAIN objectEvents THEN objectEvents[g] ELSE {})
                 \cup {eventId}
        ELSE objectEvents[g]]

TimedIssue(eventId) ==
    /\ timedCount' = timedCount + 1
    /\ timedIssued' = IF eventId > timedIssued THEN eventId ELSE timedIssued
    /\ m_nextEventId' = m_nextEventId + 1

TimedRegisterGlobalEventWith(delays, repeatSet) ==
    \E delay \in delays, repeats \in repeatSet :
      LET eventId == m_nextEventId IN
      /\ timedCount < MaxTimed
      /\ TimedIssue(eventId)
      /\ m_events' = Emplace(m_events, eventId,
                             TimedEvent(eventId, timedCount + 1, delay, repeats,
                                        EmptyGuid, "GLOBAL"))
      /\ m_globalEvents' = m_globalEvents \cup {eventId}
      /\ timedLast' = TimedOp("RegisterGlobalEvent", 0, NullObject, 0, {}, {}, {},
                              eventId)
      /\ UNCHANGED m_objectEvents
      /\ UNCHANGED TimedEventManagerFrame

TimedRegisterGlobalEvent == TimedRegisterGlobalEventWith(Delays, Repeats)

\* RegisterObjectEvent(objectGuid, callback, delay, repeats, objectType) with
\* (objectGuid, objectType) drawn from objs.
RegisterObjectEventFor(objs) ==
    \E obj \in objs, delay \in Delays, repeats \in Repeats :
      LET eventId == m_nextEventId IN
      /\ timedCount < MaxTimed
      /\ TimedIssue(eventId)
      /\ m_events' = Emplace(m_events, eventId,
                             TimedEvent(eventId, timedCount + 1, delay, repeats,
                                        obj.guid, obj.kind))
      /\ m_objectEvents' = IndexInsert(m_objectEvents, obj.guid, eventId)
      /\ timedLast' = TimedOp("RegisterObjectEvent", 0, obj, 0, {}, {}, {}, eventId)
      /\ UNCHANGED m_globalEvents
      /\ UNCHANGED TimedEventManagerFrame

\* As the Lua bindings call it: the type is that of the object.
RegisterObjectEvent == RegisterObjectEventFor(WorldObjects)

RemoveEventIn_KeepsIndex(c, eventId) ==
    IF eventId \notin DOMAIN c.events
    THEN [found |-> FALSE, c |-> c]
    ELSE [found |-> TRUE,
          c |-> Containers(EraseEvents(c.events, {eventId}), c.objectEvents,
                           c.globalEvents)]

\* RemoveEvent on the containers c; found is its return value.
RemoveEventIn(c, eventId) ==
    IF eventId \notin DOMAIN c.events
    THEN [found |-> FALSE, c |-> c]
    ELSE LET event == c.events[eventId]
             guid == event.objectGuid
             globals == IF event.objectType = "GLOBAL"
                        THEN c.globalEvents \ {eventId}
                        ELSE c.globalEvents
             objects ==
                 IF event.objectType = "GLOBAL" \/ guid \notin DOMAIN c.objectEvents
                 THEN c.objectEvents
                 ELSE IF c.objectEvents[guid] \ {eventId} = {}
                 THEN [g \in DOMAIN c.objectEvents \ {guid} |-> c.objectEvents[g]]
                 ELSE [c.objectEvents EXCEPT ![guid] = @ \ {eventId}]
         IN [found |-> TRUE,
             c |-> Containers(EraseEvents(c.events, {eventId}), objects, globals)]

Install(c) ==
    /\ m_events' = c.events
    /\ m_objectEvents' = c.objectEvents
    /\ m_globalEvents' = c.globalEvents

RemoveEvent ==
    \E eventId \in EventIds :
      LET r == RemoveEventIn(Current, eventId) IN
      /\ Install(r.c)
      /\ timedLast' = TimedOp("RemoveEvent", eventId, NullObject, 0, {}, {}, {},
                              r.found)
      /\ UNCHANGED <<m_nextEventId, timedCount, timedIssued>>
      /\ UNCHANGED TimedEventManagerFrame

RemoveObjectEventsIn_IndexOnly(c, guid) ==
    Containers(c.events,
               [g \in DOMAIN c.objectEvents \ {guid} |-> c.objectEvents[g]],
               c.globalEvents)

\* RemoveObjectEvents on the containers c.
RemoveObjectEventsIn(c, guid) ==
    IF guid \notin DOMAIN c.objectEvents THEN c
    ELSE Containers(EraseEvents(c.events, c.objectEvents[guid]),
                    [g \in DOMAIN c.objectEvents \ {guid} |-> c.objectEvents[g]],
                    c.globalEvents)

\* The number of events it logs as removed is kept as its result.
RemoveObjectEvents ==
    \E guid \in ObjectGuids :
      /\ Install(RemoveObjectEventsIn(Current, guid))
      /\ timedLast' = TimedOp("RemoveObjectEvents", 0,
                              [guid |-> guid, kind |-> "guid"], 0, {}, {}, {},
                              IF guid \in DOMAIN m_objectEvents
                              THEN Cardinality(m_objectEvents[guid]) ELSE 0)
      /\ UNCHANGED <<m_nextEventId, timedCount, timedIssued>>
      /\ UNCHANGED TimedEventManagerFrame

\* The removal emptying all three containers, as Clear does.
RemoveAllGlobalEventsIn_Everything(c) ==
    Containers([id \in {} |-> 0], [guid \in {} |-> {}], {})

RemoveAllGlobalEventsIn(c) ==
    Containers(EraseEvents(c.events, c.globalEvents), c.objectEvents, {})

RemoveAllGlobalEvents ==
    /\ Install(RemoveAllGlobalEventsIn(Current))
    /\ timedLast' = TimedOp("RemoveAllGlobalEvents", 0, NullObject, 0, {}, {}, {}, 0)
    /\ UNCHANGED <<m_nextEventId, timedCount, timedIssued>>
    /\ UNCHANGED TimedEventManagerFrame

Clear ==
    /\ Install(Containers([id \in {} |-> 0], [guid \in {} |-> {}], {}))
    /\ m_nextEventId' = 1
    /\ timedLast' = TimedOp("Clear", 0, NullObject, 0, {}, {}, {}, 0)
    /\ UNCHANGED <<timedCount, timedIssued>>
    /\ UNCHANGED TimedEventManagerFrame

(* ------------------------------ ticking -------------------------------- *)

ExecuteEvent_Unchecked(event, obj, o) ==
    [invoked |-> TRUE, reported |-> o # "ok"]

\* ExecuteEvent: whether the callback is invoked (a GLOBAL event always; an
\* object event only when obj resolves to event.objectType), and whether an
\* error is logged.  The result of a skipped invocation is the
\* default-constructed protected_function_result, which is valid.
ExecuteEvent(event, obj, o) ==
    LET typedObj == obj # NullObject /\ obj.kind = event.objectType
        invoked == event.objectType = "GLOBAL" \/ typedObj
    IN [invoked |-> invoked, reported |-> invoked /\ o # "ok"]

\* The test passing only at twice the delay.
ReadyToExecute_Late(event) == event.elapsed >= 2 * event.delay

\* if (event.elapsed >= event.delay)
ReadyToExecute_Above(event) == event.elapsed > event.delay

ReadyToExecute(event) == event.elapsed >= event.delay

\* The decrement without its test.
HandleRepeatCount_Always(event) == [event EXCEPT !.remainingRepeats = @ - 1]

\* if (event.repeats > 0) event.remainingRepeats--;
HandleRepeatCount_Keeps(event) == event

HandleRepeatCount(event) ==
    IF event.repeats > 0
    THEN [event EXCEPT !.remainingRepeats = @ - 1]
    ELSE event

\* The loop body keeping the overshoot: elapsed -= delay for elapsed = 0.
UpdateOne_CarriesOver(events, eventId, obj, diff, o) ==
    IF eventId \notin DOMAIN events
    THEN [events |-> events, remove |-> FALSE, invoked |-> FALSE,
          reported |-> FALSE]
    ELSE LET added == [events[eventId] EXCEPT
                          !.elapsed = AddUInt32(@, diff),
                          !.age = Min(@ + diff, MaxAge)]
         IN IF ReadyToExecute(added)
            THEN LET x == ExecuteEvent(added, obj, o)
                     reset == [added EXCEPT
                                  !.elapsed = @ - added.delay,
                                  !.age = 0,
                                  !.fired = IF x.invoked
                                            THEN Min(@ + 1, MaxFired) ELSE @]
                     event == HandleRepeatCount(reset)
                 IN [events |-> [events EXCEPT ![eventId] = event],
                     remove |-> event.repeats > 0 /\ event.remainingRepeats = 0,
                     invoked |-> x.invoked, reported |-> x.reported]
            ELSE [events |-> [events EXCEPT ![eventId] = added],
                  remove |-> FALSE, invoked |-> FALSE, reported |-> FALSE]

\* The loop body leaving an event whose callback failed as it was before
\* the call: neither reset nor counted.
UpdateOne_FailureKeeps(events, eventId, obj, diff, o) ==
    IF eventId \notin DOMAIN events
    THEN [events |-> events, remove |-> FALSE, invoked |-> FALSE,
          reported |-> FALSE]
    ELSE LET added == [events[eventId] EXCEPT
                          !.elapsed = AddUInt32(@, diff),
                          !.age = Min(@ + diff, MaxAge)]
         IN IF ReadyToExecute(added)
            THEN LET x == ExecuteEvent(added, obj, o)
                     reset == [added EXCEPT
                                  !.elapsed = 0,
                                  !.age = 0,
                                  !.fired = IF x.invoked
                                            THEN Min(@ + 1, MaxFired) ELSE @]
                     event == HandleRepeatCount(reset)
                 IN IF x.reported
                    THEN [events |-> events, remove |-> FALSE,
                          invoked |-> x.invoked, reported |-> x.reported]
                    ELSE [events |-> [events EXCEPT ![eventId] = event],
                          remove |-> event.repeats > 0 /\ event.remainingRepeats = 0,
                          invoked |-> x.invoked, reported |-> x.reported]
            ELSE [events |-> [events EXCEPT ![eventId] = added],
                  remove |-> FALSE, invoked |-> FALSE, reported |-> FALSE]

\* The body of the loop of UpdateEventList for one eventId.
UpdateOne(events, eventId, obj, diff, o) ==
    IF eventId \notin DOMAIN events
    THEN [events |-> events, remove |-> FALSE, invoked |-> FALSE,
          reported |-> FALSE]
    ELSE LET added == [events[eventId] EXCEPT
                          !.elapsed = AddUInt32(@, diff),
                          !.age = Min(@ + diff, MaxAge)]
         IN IF ReadyToExecute(added)
            THEN LET x == ExecuteEvent(added, obj, o)
                     reset == [added EXCEPT
                                  !.elapsed = 0,
                                  !.age = 0,
                                  !.fired = IF x.invoked
                                            THEN Min(@ + 1, MaxFired) ELSE @]
                     event == HandleRepeatCount(reset)
                 IN [events |-> [events EXCEPT ![eventId] = event],
                     remove |-> event.repeats > 0 /\ event.remainingRepeats = 0,
                     invoked |-> x.invoked, reported |-> x.reported]
            ELSE [events |-> [events EXCEPT ![eventId] = added],
                  remove |-> FALSE, invoked |-> FALSE, reported |-> FALSE]

RECURSIVE UpdateLoop_StopsOnError(_, _, _, _, _, _)
UpdateLoop_StopsOnError(acc, order, i, obj, diff, outcomes) ==
    IF i > Len(order) \/ acc.reported # {} THEN acc
    ELSE LET eventId == order[i]
             r == UpdateOne(acc.events, eventId, obj, diff, outcomes[eventId])
         IN UpdateLoop_StopsOnError(
                [events |-> r.events,
                 eventsToRemove |-> IF r.remove
                                    THEN Append(acc.eventsToRemove, eventId)
                                    ELSE acc.eventsToRemove,
                 invoked |-> IF r.invoked THEN acc.invoked \cup {eventId}
                             ELSE acc.invoked,
                 reported |-> IF r.reported THEN acc.reported \cup {eventId}
                              ELSE acc.reported],
                order, i + 1, obj, diff, outcomes)

\* The loop of UpdateEventList over eventIds in the order the container
\* yields them, from position i, collecting eventsToRemove.
RECURSIVE UpdateLoop(_, _, _, _, _, _)
UpdateLoop(acc, order, i, obj, diff, outcomes) ==
    IF i > Len(order) THEN acc
    ELSE LET eventId == order[i]
             Collected(r) ==
                [events |-> r.events,
                 eventsToRemove |-> IF r.remove
                                    THEN Append(acc.eventsToRemove, eventId)
                                    ELSE acc.eventsToRemove,
                 invoked |-> IF r.invoked THEN acc.invoked \cup {eventId}
                             ELSE acc.invoked,
                 reported |-> IF r.reported THEN acc.reported \cup {eventId}
                              ELSE acc.reported]
             body == {UpdateOne(acc.events, eventId, obj, diff, outcomes[eventId])}
         IN CHOOSE done \in
                {UpdateLoop(next, order, i + 1, obj, diff, outcomes) :
                    next \in {Collected(r) : r \in body}} : TRUE

\* for (uint64 eventId : eventsToRemove) RemoveEvent(eventId);
RECURSIVE BatchRemove(_, _, _)
BatchRemove(c, eventsToRemove, i) ==
    IF i > Len(eventsToRemove) THEN c
    ELSE BatchRemove(RemoveEventIn(c, eventsToRemove[i]).c, eventsToRemove, i + 1)

\* The orders in which an unordered_set can yield its elements.
Orders(ids) ==
    {order \in [1 .. Cardinality(ids) -> ids] :
        \A i, j \in 1 .. Cardinality(ids) : order[i] = order[j] => i = j}

UpdateEventList(c, eventIds, order, obj, diff, outcomes) ==
    LET scan == UpdateLoop([events |-> c.events, eventsToRemove |-> <<>>,
                            invoked |-> {}, reported |-> {}],
                           order, 1, obj, diff, outcomes)
    IN [c |-> BatchRemove(Containers(scan.events, c.objectEvents, c.globalEvents),
                          scan.eventsToRemove, 1),
        invoked |-> scan.invoked, reported |-> scan.reported,
        expired |-> {scan.events[scan.eventsToRemove[i]] :
                        i \in 1 .. Len(scan.eventsToRemove)}]

\* The scan running over every stored event instead of one index.
Updated_All(op, eventIds, obj, diff) ==
    \E order \in Orders(DOMAIN m_events),
       outcomes \in [DOMAIN m_events -> TimedOutcomes] :
      LET r == UpdateEventList(Current, DOMAIN m_events, order, obj, diff,
                               outcomes) IN
      /\ Install(r.c)
      /\ timedLast' = TimedOp(op, 0, obj, diff, r.invoked, r.reported, r.expired, 0)

Updated(op, eventIds, obj, diff) ==
    \E order \in Orders(eventIds), outcomes \in [eventIds -> TimedOutcomes] :
      \E r \in {UpdateEventList(Current, eventIds, order, obj, diff, outcomes)} :
      /\ Install(r.c)
      /\ timedLast' = TimedOp(op, 0, obj, diff, r.invoked, r.reported, r.expired, 0)

\* Update(diff) with diff drawn from diffs.
UpdateBy(diffs) ==
    \E diff \in diffs :
      /\ IF m_globalEvents = {}
         THEN /\ UNCHANGED <<m_events, m_objectEvents, m_globalEvents>>
              /\ timedLast' = TimedOp("Update", 0, NullObject, diff, {}, {}, {}, 0)
         ELSE Updated("Update", m_globalEvents, NullObject, diff)
      /\ UNCHANGED <<m_nextEventId, timedCount, timedIssued>>
      /\ UNCHANGED TimedEventManagerFrame

Update == UpdateBy(Diffs)

\* UpdateObjectEvents(obj, diff) with diff drawn from diffs.
UpdateObjectEventsBy(diffs) ==
    \E obj \in WorldObjects \cup {NullObject}, diff \in diffs :
      /\ IF obj = NullObject \/ obj.guid \notin DOMAIN m_objectEvents
         THEN /\ UNCHANGED <<m_events, m_objectEvents, m_globalEvents>>
              /\ timedLast' = TimedOp("UpdateObjectEvents", 0, obj, diff, {}, {}, {}, 0)
         ELSE Updated("UpdateObjectEvents", m_objectEvents[obj.guid], obj, diff)
      /\ UNCHANGED <<m_nextEventId, timedCount, timedIssued>>
      /\ UNCHANGED TimedEventManagerFrame

UpdateObjectEvents == UpdateObjectEventsBy(Diffs)

\* One TimedEventManager used from outside its callbacks.
NextTimed ==
    \/ TimedRegisterGlobalEvent
    \/ RegisterObjectEvent
    \/ RemoveEvent
    \/ RemoveObjectEvents
    \/ RemoveAllGlobalEvents
    \/ Update
    \/ UpdateObjectEvents
    \/ Clear

SpecTimed == Init /\ [][NextTimed]_vars

\* Diffs that reach and exceed twice the delay of an event.
LongDiffs == {1, 4}

LongUpdate == UpdateBy(LongDiffs)

LongUpdateObjectEvents == UpdateObjectEventsBy(LongDiffs)

\* Events ticked with long diffs.
NextLong ==
    \/ TimedRegisterGlobalEvent
    \/ RegisterObjectEvent
    \/ LongUpdate
    \/ LongUpdateObjectEvents

SpecLong == Init /\ [][NextLong]_vars

\* Events registered and removed while the world keeps updating.
NextFair ==
    \/ TimedRegisterGlobalEvent
    \/ RemoveEvent
    \/ Update

\* WorldHooks::OnUpdate runs on every iteration of the world loop and calls
\* Update(diff) with the time since the previous iteration; every diff of
\* Diffs is positive.
SpecFair == Init /\ [][NextFair]_vars /\ WF_vars(Update)

\* enum class TimedEventObjectType : uint8
TimedEventObjectTypes == {"GLOBAL", "PLAYER", "CREATURE", "GAMEOBJECT"}

\* RegisterObjectEvent as the class offers it: any value of the enumeration,
\* here for one object.
RegisterObjectEventOfType ==
    RegisterObjectEventFor([guid : {1}, kind : TimedEventObjectTypes])

\* Every public operation of one TimedEventManager.
NextTypes ==
    \/ TimedRegisterGlobalEvent
    \/ RegisterObjectEventOfType
    \/ RemoveEvent
    \/ RemoveObjectEvents
    \/ RemoveAllGlobalEvents
    \/ Update
    \/ UpdateObjectEvents
    \/ Clear

SpecTypes == Init /\ [][NextTypes]_vars

(* ---------------- the variant Eclipse::Core::TimedEventManager --------- *)

\* Both schedulers are given the same calls, one after another, with the
\* same arguments and with callbacks that behave the same; eclipse holds the
\* fields of the Eclipse object under their names.

\* m_objectEvents[objectGuid].push_back(eventId)
PushBack(objectEvents, guid, eventId) ==
    [g \in DOMAIN objectEvents \cup {guid} |->
        IF g = guid
        THEN Append(IF g \in DOMAIN objectEvents THEN objectEvents[g] ELSE <<>>,
                    eventId)
        ELSE objectEvents[g]]

\* pop_back() alone, whatever the element found.
SwapPop_WithoutSwap(list, eventId) ==
    IF \A i \in 1 .. Len(list) : list[i] # eventId THEN list
    ELSE SubSeq(list, 1, Len(list) - 1)

\* it = std::find(begin, end, eventId); if found, std::swap(*it, back()) and
\* pop_back().
SwapPop(list, eventId) ==
    IF \A i \in 1 .. Len(list) : list[i] # eventId THEN list
    ELSE LET it == CHOOSE i \in 1 .. Len(list) :
                      /\ list[i] = eventId
                      /\ \A j \in 1 .. i - 1 : list[j] # eventId
             swapped == [list EXCEPT ![it] = list[Len(list)],
                                     ![Len(list)] = list[it]]
         IN SubSeq(swapped, 1, Len(list) - 1)

EclipseRegisterGlobalEvent(e, cb, delay, repeats) ==
    LET eventId == e.m_nextEventId IN
    [ret |-> eventId,
     e |-> [e EXCEPT
               !.m_nextEventId = @ + 1,
               !.m_events = Emplace(@, eventId,
                                    TimedEvent(eventId, cb, delay, repeats,
                                               EmptyGuid, "GLOBAL")),
               !.m_globalEvents = Append(@, eventId)]]

EclipseRegisterObjectEvent(e, objectGuid, cb, delay, repeats, objectType) ==
    LET eventId == e.m_nextEventId IN
    [ret |-> eventId,
     e |-> [e EXCEPT
               !.m_nextEventId = @ + 1,
               !.m_events = Emplace(@, eventId,
                                    TimedEvent(eventId, cb, delay, repeats,
                                               objectGuid, objectType)),
               !.m_objectEvents = PushBack(@, objectGuid, eventId)]]

\* RemoveEvent of the variant; found is its return value.
EclipseRemoveEvent(e, eventId) ==
    IF eventId \notin DOMAIN e.m_events
    THEN [found |-> FALSE, e |-> e]
    ELSE LET event == e.m_events[eventId]
             guid == event.objectGuid
             globals == IF event.objectType = "GLOBAL"
                        THEN SwapPop(e.m_globalEvents, eventId)
                        ELSE e.m_globalEvents
             objects ==
                 IF event.objectType = "GLOBAL" \/ guid \notin DOMAIN e.m_objectEvents
                 THEN e.m_objectEvents
                 ELSE LET eventList == SwapPop(e.m_objectEvents[guid], eventId)
                      IN IF eventList = <<>>
                         THEN [g \in DOMAIN e.m_objectEvents \ {guid} |->
                                  e.m_objectEvents[g]]
                         ELSE [e.m_objectEvents EXCEPT ![guid] = eventList]
         IN [found |-> TRUE,
             e |-> [e EXCEPT !.m_events = EraseEvents(@, {eventId}),
                             !.m_objectEvents = objects,
                             !.m_globalEvents = globals]]

\* The elements of a vector.
Elements(list) == {list[i] : i \in 1 .. Len(list)}

\* RemoveObjectEvents of the variant, with the number it logs.
EclipseRemoveObjectEvents(e, objectGuid) ==
    IF objectGuid \notin DOMAIN e.m_objectEvents
    THEN [ret |-> 0, e |-> e]
    ELSE [ret |-> Len(e.m_objectEvents[objectGuid]),
          e |-> [e EXCEPT
                    !.m_events = EraseEvents(@, Elements(e.m_objectEvents[objectGuid])),
                    !.m_objectEvents =
                        [g \in DOMAIN e.m_objectEvents \ {objectGuid} |->
                            e.m_objectEvents[g]]]]

EclipseRemoveAllGlobalEvents(e) ==
    [e EXCEPT !.m_events = EraseEvents(@, Elements(e.m_globalEvents)),
              !.m_globalEvents = <<>>]

EclipseClear(e) ==
    [e EXCEPT !.m_events = [id \in {} |-> 0],
              !.m_objectEvents = [guid \in {} |-> <<>>],
              !.m_globalEvents = <<>>,
              !.m_eventsToRemove = <<>>,
              !.m_nextEventId = 1]

\* ExecuteEvent of the variant: a GLOBAL event calls its callback; an object
\* event returns early when obj is null or does not convert to the type.
EclipseExecuteEvent(event, obj, o) ==
    IF event.objectType = "GLOBAL"
    THEN [invoked |-> TRUE, reported |-> o # "ok"]
    ELSE IF obj = NullObject
    THEN [invoked |-> FALSE, reported |-> FALSE]
    ELSE IF obj.kind # event.objectType
    THEN [invoked |-> FALSE, reported |-> FALSE]
    ELSE [invoked |-> TRUE, reported |-> o # "ok"]

\* The body of the loops of Update and UpdateObjectEvents of the variant.
EclipseUpdateOne(e, eventId, obj, diff, o) ==
    IF eventId \notin DOMAIN e.m_events
    THEN [e |-> e, invoked |-> FALSE, reported |-> FALSE]
    ELSE LET added == [e.m_events[eventId] EXCEPT
                          !.elapsed = AddUInt32(@, diff),
                          !.age = Min(@ + diff, MaxAge)]
         IN IF added.elapsed >= added.delay
            THEN LET x == EclipseExecuteEvent(added, obj, o)
                     reset == [added EXCEPT
                                  !.elapsed = 0,
                                  !.age = 0,
                                  !.fired = IF x.invoked
                                            THEN Min(@ + 1, MaxFired) ELSE @]
                     event == IF reset.repeats > 0
                              THEN [reset EXCEPT !.remainingRepeats = @ - 1]
                              ELSE reset
                 IN [e |-> [e EXCEPT
                               !.m_events[eventId] = event,
                               !.m_eventsToRemove =
                                   IF event.repeats > 0 /\ event.remainingRepeats = 0
                                   THEN Append(@, eventId) ELSE @],
                     invoked |-> x.invoked, reported |-> x.reported]
            ELSE [e |-> [e EXCEPT !.m_events[eventId] = added],
                  invoked |-> FALSE, reported |-> FALSE]

\* for (uint64 eventId : list) from position i.
RECURSIVE EclipseUpdateLoop(_, _, _, _, _, _)
EclipseUpdateLoop(acc, list, i, obj, diff, outcomes) ==
    IF i > Len(list) THEN acc
    ELSE LET eventId == list[i]
             Collected(r) ==
                [e |-> r.e,
                 invoked |-> IF r.invoked THEN acc.invoked \cup {eventId}
                             ELSE acc.invoked,
                 reported |-> IF r.reported THEN acc.reported \cup {eventId}
                              ELSE acc.reported]
             body == {EclipseUpdateOne(acc.e, eventId, obj, diff, outcomes[eventId])}
         IN CHOOSE done \in
                {EclipseUpdateLoop(next, list, i + 1, obj, diff, outcomes) :
                    next \in {Collected(r) : r \in body}} : TRUE

\* for (uint64 eventId : m_eventsToRemove) RemoveEvent(eventId);
RECURSIVE EclipseBatchRemove(_, _)
EclipseBatchRemove(e, i) ==
    IF i > Len(e.m_eventsToRemove) THEN e
    ELSE EclipseBatchRemove(EclipseRemoveEvent(e, e.m_eventsToRemove[i]).e, i + 1)

\* m_eventsToRemove.clear(), the loop over list, the batch removal.
EclipseScan(e, list, obj, diff, outcomes) ==
    LET scan == EclipseUpdateLoop(
                    [e |-> [e EXCEPT !.m_eventsToRemove = <<>>],
                     invoked |-> {}, reported |-> {}],
                    list, 1, obj, diff, outcomes)
    IN [e |-> EclipseBatchRemove(scan.e, 1),
        invoked |-> scan.invoked, reported |-> scan.reported,
        expired |-> {scan.e.m_events[scan.e.m_eventsToRemove[i]] :
                        i \in 1 .. Len(scan.e.m_eventsToRemove)}]

EclipseUpdate(e, diff, outcomes) ==
    IF e.m_globalEvents = <<>>
    THEN [e |-> e, invoked |-> {}, reported |-> {}, expired |-> {}]
    ELSE EclipseScan(e, e.m_globalEvents, NullObject, diff, outcomes)

EclipseUpdateObjectEvents(e, obj, diff, outcomes) ==
    IF obj = NullObject \/ obj.guid \notin DOMAIN e.m_objectEvents
    THEN [e |-> e, invoked |-> {}, reported |-> {}, expired |-> {}]
    ELSE EclipseScan(e, e.m_objectEvents[obj.guid], obj, diff, outcomes)

\* Register*Event calls made on each of the two schedulers.
MaxBoth == 3

BothDelays == {2}

BothRepeats == {0, 2}

BothDiffs == {1}

BothEventIds == 1 .. MaxBoth

\* The object events are registered for, and the objects handed to
\* UpdateObjectEvents: that one, and one of another type under the same guid.
BothOwners == {[guid |-> 1, kind |-> "PLAYER"]}

BothObjects == [guid : {1}, kind : ObjectTypes]

\* What a callback does in both: it returns, or it raises a Lua error.
BothOutcomes == {"ok", "invalid"}

\* What the frame of a call on the two schedulers leaves alone.
BothFrame == <<evars, trigger, update, hvars, mvars, cvars>>

BothRegisterGlobalEvent ==
    \E delay \in BothDelays, repeats \in BothRepeats :
      LET eventId == m_nextEventId
          r == EclipseRegisterGlobalEvent(eclipse, timedCount + 1, delay, repeats)
      IN
      /\ timedCount < MaxBoth
      /\ TimedIssue(eventId)
      /\ m_events' = Emplace(m_events, eventId,
                             TimedEvent(eventId, timedCount + 1, delay, repeats,
                                        EmptyGuid, "GLOBAL"))
      /\ m_globalEvents' = m_globalEvents \cup {eventId}
      /\ timedLast' = TimedOp("RegisterGlobalEvent", 0, NullObject, 0, {}, {}, {},
                              eventId)
      /\ eclipse' = r.e
      /\ eclipseLast' = TimedOp("RegisterGlobalEvent", 0, NullObject, 0, {}, {}, {},
                                r.ret)
      /\ UNCHANGED m_objectEvents
      /\ UNCHANGED BothFrame

BothRegisterObjectEvent ==
    \E obj \in BothOwners, delay \in BothDelays, repeats \in BothRepeats :
      LET eventId == m_nextEventId
          r == EclipseRegisterObjectEvent(eclipse, obj.guid, timedCount + 1,
                                          delay, repeats, obj.kind)
      IN
      /\ timedCount < MaxBoth
      /\ TimedIssue(eventId)
      /\ m_events' = Emplace(m_events, eventId,
                             TimedEvent(eventId, timedCount + 1, delay, repeats,
                                        obj.guid, obj.kind))
      /\ m_objectEvents' = IndexInsert(m_objectEvents, obj.guid, eventId)
      /\ timedLast' = TimedOp("RegisterObjectEvent", 0, obj, 0, {}, {}, {}, eventId)
      /\ eclipse' = r.e
      /\ eclipseLast' = TimedOp("RegisterObjectEvent", 0, obj, 0, {}, {}, {}, r.ret)
      /\ UNCHANGED m_globalEvents
      /\ UNCHANGED BothFrame

BothRemoveEvent ==
    \E eventId \in BothEventIds :
      LET r == RemoveEventIn(Current, eventId)
          x == EclipseRemoveEvent(eclipse, eventId)
      IN
      /\ Install(r.c)
      /\ timedLast' = TimedOp("RemoveEvent", eventId, NullObject, 0, {}, {}, {},
                              r.found)
      /\ eclipse' = x.e
      /\ eclipseLast' = TimedOp("RemoveEvent", eventId, NullObject, 0, {}, {}, {},
                                x.found)
      /\ UNCHANGED <<m_nextEventId, timedCount, timedIssued>>
      /\ UNCHANGED BothFrame

BothRemoveObjectEvents ==
    \E guid \in {1, 2} :
      LET x == EclipseRemoveObjectEvents(eclipse, guid)
          named == [guid |-> guid, kind |-> "guid"]
      IN
      /\ Install(RemoveObjectEventsIn(Current, guid))
      /\ timedLast' = TimedOp("RemoveObjectEvents", 0, named, 0, {}, {}, {},
                              IF guid \in DOMAIN m_objectEvents
                              THEN Cardinality(m_objectEvents[guid]) ELSE 0)
      /\ eclipse' = x.e
      /\ eclipseLast' = TimedOp("RemoveObjectEvents", 0, named, 0, {}, {}, {}, x.ret)
      /\ UNCHANGED <<m_nextEventId, timedCount, timedIssued>>
      /\ UNCHANGED BothFrame

BothRemoveAllGlobalEvents ==
    /\ Install(RemoveAllGlobalEventsIn(Current))
    /\ timedLast' = TimedOp("RemoveAllGlobalEvents", 0, NullObject, 0, {}, {}, {}, 0)
    /\ eclipse' = EclipseRemoveAllGlobalEvents(eclipse)
    /\ eclipseLast' = TimedOp("RemoveAllGlobalEvents", 0, NullObject, 0, {}, {}, {}, 0)
    /\ UNCHANGED <<m_nextEventId, timedCount, timedIssued>>
    /\ UNCHANGED BothFrame

BothClear ==
    /\ Install(Containers([id \in {} |-> 0], [guid \in {} |-> {}], {}))
    /\ m_nextEventId' = 1
    /\ timedLast' = TimedOp("Clear", 0, NullObject, 0, {}, {}, {}, 0)
    /\ eclipse' = EclipseClear(eclipse)
    /\ eclipseLast' = TimedOp("Clear", 0, NullObject, 0, {}, {}, {}, 0)
    /\ UNCHANGED <<timedCount, timedIssued>>
    /\ UNCHANGED BothFrame

\* Update(diff) on both: the hash set yields its ids in any order, the vector
\* in its own; the callback of an event does the same in both.
BothUpdate ==
    \E diff \in BothDiffs,
       outcomes \in [m_globalEvents \cup Elements(eclipse.m_globalEvents)
                        -> BothOutcomes] :
      LET x == EclipseUpdate(eclipse, diff, outcomes) IN
      /\ IF m_globalEvents = {}
         THEN /\ UNCHANGED <<m_events, m_objectEvents, m_globalEvents>>
              /\ timedLast' = TimedOp("Update", 0, NullObject, diff, {}, {}, {}, 0)
         ELSE \E order \in Orders(m_globalEvents) :
                \E r \in {UpdateEventList(Current, m_globalEvents, order,
                                          NullObject, diff, outcomes)} :
                  /\ Install(r.c)
                  /\ timedLast' = TimedOp("Update", 0, NullObject, diff, r.invoked,
                                          r.reported, r.expired, 0)
      /\ eclipse' = x.e
      /\ eclipseLast' = TimedOp("Update", 0, NullObject, diff, x.invoked,
                                x.reported, x.expired, 0)
      /\ UNCHANGED <<m_nextEventId, timedCount, timedIssued>>
      /\ UNCHANGED BothFrame

\* The ids either scheduler keeps for obj.
BothListed(obj) ==
    IF obj = NullObject THEN {}
    ELSE (IF obj.guid \in DOMAIN m_objectEvents
          THEN m_objectEvents[obj.guid] ELSE {})
         \cup (IF obj.guid \in DOMAIN eclipse.m_objectEvents
               THEN Elements(eclipse.m_objectEvents[obj.guid]) ELSE {})

BothUpdateObjectEvents ==
    \E obj \in BothObjects \cup {NullObject}, diff \in BothDiffs :
     \E outcomes \in [BothListed(obj) -> BothOutcomes] :
      LET x == EclipseUpdateObjectEvents(eclipse, obj, diff, outcomes) IN
      /\ IF obj = NullObject \/ obj.guid \notin DOMAIN m_objectEvents
         THEN /\ UNCHANGED <<m_events, m_objectEvents, m_globalEvents>>
              /\ timedLast' = TimedOp("UpdateObjectEvents", 0, obj, diff, {}, {}, {}, 0)
         ELSE \E order \in Orders(m_objectEvents[obj.guid]) :
                \E r \in {UpdateEventList(Current, m_objectEvents[obj.guid], order,
                                          obj, diff, outcomes)} :
                  /\ Install(r.c)
                  /\ timedLast' = TimedOp("UpdateObjectEvents", 0, obj, diff,
                                          r.invoked, r.reported, r.expired, 0)
      /\ eclipse' = x.e
      /\ eclipseLast' = TimedOp("UpdateObjectEvents", 0, obj, diff, x.invoked,
                                x.reported, x.expired, 0)
      /\ UNCHANGED <<m_nextEventId, timedCount, timedIssued>>
      /\ UNCHANGED BothFrame

NextBoth ==
    \/ BothRegisterGlobalEvent
    \/ BothRegisterObjectEvent
    \/ BothRemoveEvent
    \/ BothRemoveObjectEvents
    \/ BothRemoveAllGlobalEvents
    \/ BothUpdate
    \/ BothUpdateObjectEvents
    \/ BothClear

SpecBoth == Init /\ [][NextBoth]_vars

(* -------------- RemoveEvent as a method of an object ------------------- *)

\* GlobalMethods::RemoveObjectEvent(object, eventId, mgr), the function behind
\* player:RemoveEvent(eventId), creature:RemoveEvent(eventId) and
\* gameobject:RemoveEvent(eventId): false for a null object, and otherwise
\* mgr->RemoveEvent(eventId).
RemoveObjectEvent ==
    \E obj \in WorldObjects \cup {NullObject}, eventId \in EventIds :
      LET r == IF obj = NullObject
               THEN [found |-> FALSE, c |-> Current]
               ELSE RemoveEventIn(Current, eventId)
      IN
      /\ Install(r.c)
      /\ timedLast' = TimedOp("RemoveObjectEvent", eventId, obj, 0, {}, {}, {},
                              r.found)
      /\ UNCHANGED <<m_nextEventId, timedCount, timedIssued>>
      /\ UNCHANGED TimedEventManagerFrame

\* Scripts that register global and object events and remove events by id
\* through the objects.
NextObjectMethods ==
    \/ TimedRegisterGlobalEvent
    \/ RegisterObjectEvent
    \/ RemoveObjectEvent
    \/ UpdateObjectEvents

SpecObjectMethods == Init /\ [][NextObjectMethods]_vars

(* ------------------------------ ALEManager ----------------------------- *)

\* StateManager::Initialize; created tells whether CreateNewState manages to
\* build the master state (it returns nullptr when building it throws).
StateManagerInitialize(sm, created) ==
    IF sm.m_initialized THEN [ret |-> TRUE, sm |-> sm]
    ELSE IF MASTER_STATE_ID \in sm.m_states
    THEN [ret |-> TRUE, sm |-> [sm EXCEPT !.m_initialized = TRUE]]
    ELSE IF created
    THEN [ret |-> TRUE,
          sm |-> [m_initialized |-> TRUE,
                  m_states |-> sm.m_states \cup {MASTER_STATE_ID}]]
    ELSE [ret |-> FALSE, sm |-> sm]

\* StateManager::Shutdown
StateManagerShutdown(sm) ==
    IF ~sm.m_initialized THEN sm
    ELSE [m_initialized |-> FALSE, m_states |-> {}]

\* ALEManager::InitializeCore
InitializeCore(sm, created) ==
    LET r == StateManagerInitialize(sm, created) IN
    IF ~r.ret THEN [ret |-> FALSE, sm |-> r.sm]
    ELSE IF MASTER_STATE_ID \notin r.sm.m_states
    THEN [ret |-> FALSE, sm |-> StateManagerShutdown(r.sm)]
    ELSE [ret |-> TRUE, sm |-> r.sm]

\* ALEManager::Shutdown when called with the flag m.m_initialized: what it
\* does to the EventManager (c: its handlers and its flag) and to the
\* StateManager.
ManagerShutdown(m, c, sm) ==
    IF ~m.m_initialized THEN [m |-> m, c |-> c, sm |-> sm]
    ELSE [m |-> [m EXCEPT !.m_initialized = FALSE],
          c |-> IF ~c.m_initialized THEN c
                ELSE [m_globalHandlers |-> EmptyMap, m_entryHandlers |-> EmptyMap,
                      m_uniqueHandlers |-> EmptyMap, m_initialized |-> FALSE],
          sm |-> StateManagerShutdown(sm)]

\* The handlers and the flag of the EventManager.
Handlers ==
    [m_globalHandlers |-> m_globalHandlers, m_entryHandlers |-> m_entryHandlers,
     m_uniqueHandlers |-> m_uniqueHandlers, m_initialized |-> m_initialized]

\* What the ALEManager calls leave alone.
ManagerFrame == <<tvars, trigger, update, hvars, eclipse, eclipseLast, cvars>>

\* ALEManager::Initialize.  enabled is ALE.Enabled of the configuration,
\* created whether the master state can be built; the scripts LoadScripts
\* runs register the handlers of script (none, or one for an event) and
\* loaded tells whether LoadScripts returns true or catches a sol::error.
ManagerInitialize ==
    \E enabled, created, loaded \in BOOLEAN,
       script \in SUBSET (GlobalEvents \X {0}) :
      LET core == InitializeCore(stateManager, created)
          nextId == IF m_initialized THEN m_nextHandlerId ELSE 1
          registers == Cardinality(script) = 1 /\ regCount < MaxRegs
          ev == (CHOOSE x \in script : TRUE)[1]
          shots == (CHOOSE x \in script : TRUE)[2]
          map == IF registers
                 THEN EmplaceBack(m_globalHandlers, KeyOf(ev),
                                  EventHandler(nextId, regCount + 1, shots,
                                               DefaultStateId, ev))
                 ELSE m_globalHandlers
          loading == [m_globalHandlers |-> map,
                      m_entryHandlers |-> m_entryHandlers,
                      m_uniqueHandlers |-> m_uniqueHandlers,
                      m_initialized |-> TRUE]
          down == ManagerShutdown(aleManager, loading, core.sm)
      IN
      /\ Cardinality(script) <= 1
      /\ IF aleManager.m_initialized
         THEN /\ aleLast' = ManagerOp("Initialize", enabled, created, loaded, TRUE)
              /\ UNCHANGED <<aleManager, stateManager, evars>>
         ELSE IF ~enabled
         THEN /\ aleLast' = ManagerOp("Initialize", enabled, created, loaded, FALSE)
              /\ UNCHANGED <<aleManager, stateManager, evars>>
         ELSE IF ~core.ret
         THEN /\ aleLast' = ManagerOp("Initialize", enabled, created, loaded, FALSE)
              /\ stateManager' = core.sm
              /\ m_initialized' = TRUE
              /\ m_nextHandlerId' = nextId
              /\ last' = Op("Initialize", NoEvent, 0, 0, <<>>, <<>>, TRUE)
              /\ UNCHANGED <<aleManager, m_globalHandlers, m_entryHandlers,
                             m_uniqueHandlers, regCount, maxIssued>>
         ELSE /\ aleLast' = ManagerOp("Initialize", enabled, created, loaded, loaded)
              /\ m_nextHandlerId' = IF registers THEN nextId + 1 ELSE nextId
              /\ regCount' = IF registers THEN regCount + 1 ELSE regCount
              /\ maxIssued' = IF registers /\ nextId > maxIssued
                              THEN nextId ELSE maxIssued
              /\ last' = IF registers
                         THEN Op("RegisterGlobalEvent", ev, DefaultStateId, 0,
                                 <<>>, <<>>, nextId)
                         ELSE Op("Initialize", NoEvent, 0, 0, <<>>, <<>>, TRUE)
              /\ IF loaded
                 THEN /\ aleManager' = [aleManager EXCEPT !.m_initialized = TRUE]
                      /\ stateManager' = core.sm
                      /\ m_globalHandlers' = map
                      /\ m_initialized' = TRUE
                      /\ UNCHANGED <<m_entryHandlers, m_uniqueHandlers>>
                 ELSE /\ aleManager' = down.m
                      /\ stateManager' = down.sm
                      /\ m_globalHandlers' = down.c.m_globalHandlers
                      /\ m_entryHandlers' = down.c.m_entryHandlers
                      /\ m_uniqueHandlers' = down.c.m_uniqueHandlers
                      /\ m_initialized' = down.c.m_initialized
      /\ UNCHANGED ManagerFrame

\* ALEManager::Shutdown, called by the host.
ManagerShutsDown ==
    LET down == ManagerShutdown(aleManager, Handlers, stateManager) IN
    /\ aleManager' = down.m
    /\ stateManager' = down.sm
    /\ m_globalHandlers' = down.c.m_globalHandlers
    /\ m_entryHandlers' = down.c.m_entryHandlers
    /\ m_uniqueHandlers' = down.c.m_uniqueHandlers
    /\ m_initialized' = down.c.m_initialized
    /\ aleLast' = ManagerOp("Shutdown", FALSE, FALSE, FALSE, FALSE)
    /\ last' = IF aleManager.m_initialized /\ m_initialized
               THEN Op("Shutdown", NoEvent, 0, 0, <<>>, <<>>, 0) ELSE last
    /\ UNCHANGED <<m_nextHandlerId, regCount, maxIssued>>
    /\ UNCHANGED ManagerFrame

\* A script of a loaded engine registers a handler.
ScriptRegisters ==
    /\ aleManager.m_initialized
    /\ RegisterGlobalEvent

NextManager ==
    \/ ManagerInitialize
    \/ ManagerShutsDown
    \/ ScriptRegisters

SpecManager == Init /\ [][NextManager]_vars

(* ----------------------------- BytecodeCache --------------------------- *)

\* What the BytecodeCache calls leave alone.
CacheFrame == <<evars, tvars, trigger, update, hvars, eclipse, eclipseLast, mvars>>

\* map[key] = value
Assign(map, key, value) ==
    [k \in DOMAIN map \cup {key} |-> IF k = key THEN value ELSE map[k]]

\* map.erase(key)
EraseKey(map, key) == [k \in DOMAIN map \ {key} |-> map[k]]

\* BytecodeCache::GetFileModTime: the time kept in m_timestampCache when
\* there is one, else the st_mtime of the file, which it keeps.
GetFileModTime(timestamps, filepath) ==
    IF filepath \in DOMAIN timestamps
    THEN [modTime |-> timestamps[filepath], timestamps |-> timestamps]
    ELSE [modTime |-> files[filepath],
          timestamps |-> Assign(timestamps, filepath, files[filepath])]

\* ScriptCompiler::CreateBytecode followed by BytecodeCache::Store: the
\* bytecode compiled from the file carries the st_mtime read at that moment;
\* an invalid (empty) bytecode is not stored.
Store ==
    \E filepath \in Filepaths, isValid \in BOOLEAN :
      /\ m_cache' = IF isValid
                    THEN Assign(m_cache, filepath,
                                [last_modified |-> files[filepath],
                                 filepath |-> filepath])
                    ELSE m_cache
      /\ cacheLast' = CacheOp("Store", filepath, FALSE, 0, files[filepath])
      /\ UNCHANGED <<m_timestampCache, files>>
      /\ UNCHANGED CacheFrame

\* BytecodeCache::Get.  Only valid bytecode is stored, so the test of the
\* bytecode passes.
Get ==
    \E filepath \in Filepaths :
      IF filepath \notin DOMAIN m_cache
      THEN /\ cacheLast' = CacheOp("Get", filepath, FALSE, 0, files[filepath])
           /\ UNCHANGED <<m_cache, m_timestampCache, files>>
           /\ UNCHANGED CacheFrame
      ELSE LET r == GetFileModTime(m_timestampCache, filepath)
               currentModTime == r.modTime
               entry == m_cache[filepath]
           IN
           /\ m_timestampCache' = r.timestamps
           /\ IF entry.last_modified # currentModTime \/ currentModTime = 0
              THEN /\ m_cache' = EraseKey(m_cache, filepath)
                   /\ cacheLast' = CacheOp("Get", filepath, FALSE, 0,
                                           files[filepath])
              ELSE /\ m_cache' = m_cache
                   /\ cacheLast' = CacheOp("Get", filepath, TRUE,
                                           entry.last_modified, files[filepath])
           /\ UNCHANGED files
           /\ UNCHANGED CacheFrame

\* Somebody edits a script: its st_mtime moves on.
FileModified ==
    \E filepath \in Filepaths :
      /\ files[filepath] < MaxModTime
      /\ files' = [files EXCEPT ![filepath] = @ + 1]
      /\ cacheLast' = CacheOp("modified", filepath, FALSE, 0, files'[filepath])
      /\ UNCHANGED <<m_cache, m_timestampCache>>
      /\ UNCHANGED CacheFrame

\* Store, Get and modifications of the files only.
NextCacheUse ==
    \/ Store
    \/ Get
    \/ FileModified

SpecCacheUse == Init /\ [][NextCacheUse]_vars

(* --------------------- delays near the top of uint32 ------------------- *)

\* Delays within one diff of the largest uint32, and the diffs they are
\* ticked with.
WideDelays == {UInt32Modulus - 2, UInt32Modulus - 1}

WideDiffs == {1, UInt32Modulus \div 2, UInt32Modulus - 1}

WideRegisterGlobalEvent == TimedRegisterGlobalEventWith(WideDelays, {0, 1})

WideUpdate == UpdateBy(WideDiffs)

NextWide ==
    \/ WideRegisterGlobalEvent
    \/ WideUpdate

SpecWide == Init /\ [][NextWide]_vars

(* --------------------------- specifications ---------------------------- *)

\* Dispatch: registration, triggering and cancellation on a manager whose
\* life cycle is left alone.
Next ==
    \/ RegisterGlobalEvent
    \/ RegisterEntryEvent
    \/ RegisterUniqueEvent
    \/ TriggerGlobalEvent
    \/ TriggerEntryEvent
    \/ TriggerUniqueEvent
    \/ TriggerGlobalEventWithReturn
    \/ TriggerEntryEventWithReturn
    \/ CancelEvent
    \/ CancelGlobalEvent
    \/ CancelEntryEvent
    \/ CancelUniqueEvent
    \/ CancelStateEvents
    \/ CancelAllEvents

Spec == Init /\ [][Next]_vars

\* Handlers owned by several Lua states, and their bulk cancellation.
NextState ==
    \/ RegisterGlobalEventForState
    \/ RegisterEntryEventForState
    \/ RegisterUniqueEventForState
    \/ TriggerGlobalEvent
    \/ TriggerEntryEvent
    \/ TriggerUniqueEvent
    \/ CancelEvent
    \/ CancelStateEvents

SpecState == Init /\ [][NextState]_vars

\* The life cycle: Initialize and Shutdown in any order with the rest.
NextLife ==
    \/ RegisterGlobalEvent
    \/ RegisterEntryEvent
    \/ RegisterUniqueEvent
    \/ TriggerGlobalEvent
    \/ TriggerEntryEvent
    \/ TriggerUniqueEvent
    \/ CancelEvent
    \/ CancelAllEvents
    \/ Initialize
    \/ Shutdown

SpecLife == Init /\ [][NextLife]_vars

\* Register* calls made in the executions that fill one bucket.
MaxOrderRegs == 3

\* Shot limits used there.
OrderShots == {0, 1}

OrderRegisterGlobalEvent ==
    \E ev \in GlobalEvents, s \in OrderShots, sid \in StateIds :
      /\ RegisteredUpTo(MaxOrderRegs, "RegisterGlobalEvent", m_globalHandlers,
                        ev, s, sid)
      /\ UNCHANGED <<m_entryHandlers, m_uniqueHandlers>>
      /\ UNCHANGED EventManagerFrame

OrderCancelEvent ==
    \E handlerId \in 1 .. MaxOrderRegs :
      /\ CancelEventById(handlerId)
      /\ UNCHANGED EventManagerFrame

\* Three handlers in one bucket, removed by CancelEvent, by
\* CancelStateEvents and by the pruning at the end of a Trigger.
NextOrder ==
    \/ OrderRegisterGlobalEvent
    \/ TriggerGlobalEvent
    \/ OrderCancelEvent
    \/ CancelStateEvents

SpecOrder == Init /\ [][NextOrder]_vars

(* ------------- callbacks that call back into the EventManager ---------- *)

\* TriggerGlobalEvent taken one loop step at a time, so that the Lua callback
\* of a handler can itself call RegisterServerEvent / RegisterPlayerEvent,
\* CancelEvent and CancelServerEvent / CancelPlayerEvent, which act on the
\* stored maps at once.

\* The process has stopped on an access through an invalidated iterator or
\* reference.
Crashed == [active |-> FALSE, crashed |-> TRUE]

\* auto& handlers = it->second: the vector the range-for iterates.
Iterated == Bucket(m_globalHandlers, KeyOf(trigger.event))

\* uint32 executed = 0 and the range-for at its first element; end() is taken
\* once.  running is the callback being executed (0: none); invalidated says
\* that a change of the vector has invalidated the loop's iterators.
Scanning(ev, handlers) ==
    [active |-> TRUE, event |-> ev, pos |-> 1, end |-> Len(handlers),
     executed |-> 0, running |-> 0, invalidated |-> FALSE]

InCallback == trigger.active /\ trigger.running # 0

\* The callbacks a vector of handlers owns, in its order.
Callbacks(handlers) == [i \in 1 .. Len(handlers) |-> handlers[i].function]

\* Whether a callback's change of the global map invalidates the iterators
\* and references of the loop: any insertion into or erasure from the
\* iterated vector does (end() at least), and so does erasing its bucket.
Invalidates(handlerMap) ==
    \/ KeyOf(trigger.event) \notin DOMAIN handlerMap
    \/ Callbacks(handlerMap[KeyOf(trigger.event)]) # Callbacks(Iterated)

Invalidated(handlerMap) ==
    [trigger EXCEPT !.invalidated = @ \/ Invalidates(handlerMap)]

\* TriggerGlobalEvent up to the loop.
TriggerBegins ==
    \E ev \in GlobalEvents :
      /\ trigger = Idle
      /\ CanCall(Bucket(m_globalHandlers, KeyOf(ev)))
      /\ IF KeyOf(ev) \notin DOMAIN m_globalHandlers
         THEN /\ last' = Op("TriggerGlobalEvent", ev, 0, 0, <<>>, <<>>, 0)
              /\ UNCHANGED trigger
         ELSE /\ trigger' = Scanning(ev, m_globalHandlers[KeyOf(ev)])
              /\ UNCHANGED last
      /\ UNCHANGED <<m_globalHandlers, m_entryHandlers, m_uniqueHandlers,
                     m_nextHandlerId, m_initialized, regCount, maxIssued>>
      /\ UNCHANGED <<tvars, update, hvars, xvars>>

\* One iteration up to the call of the callback: ExecuteHandler tests
\* ShouldExecute on the element the iterator refers to.  Through an
\* invalidated iterator the element read is the one now at that position,
\* if any, or the read fails.
HandlerEntered ==
    /\ trigger.active
    /\ trigger.running = 0
    /\ trigger.pos <= trigger.end
    /\ \/ /\ trigger.pos <= Len(Iterated)
          /\ trigger' = IF ShouldExecute(Iterated[trigger.pos])
                        THEN [trigger EXCEPT
                                 !.running = Iterated[trigger.pos].function]
                        ELSE [trigger EXCEPT !.pos = @ + 1]
       \/ /\ trigger.invalidated
          /\ trigger.pos > Len(Iterated)
          /\ trigger' = [trigger EXCEPT !.pos = @ + 1]
       \/ /\ trigger.invalidated
          /\ trigger' = Crashed
    /\ UNCHANGED <<evars, tvars, update, hvars, xvars>>

\* The callback calls RegisterServerEvent / RegisterPlayerEvent.
CallbackRegisters ==
    \E ev \in GlobalEvents, s \in ShotValues :
      /\ InCallback
      /\ Registered("RegisterGlobalEvent", m_globalHandlers, ev, s, DefaultStateId)
      /\ trigger' = Invalidated(m_globalHandlers')
      /\ UNCHANGED <<m_entryHandlers, m_uniqueHandlers>>
      /\ UNCHANGED <<tvars, update, hvars, xvars>>

\* The callback calls CancelEvent(handlerId).
CallbackCancels ==
    \E handlerId \in HandlerIds :
      /\ InCallback
      /\ CancelEventById(handlerId)
      /\ trigger' = Invalidated(m_globalHandlers')
      /\ UNCHANGED <<tvars, update, hvars, xvars>>

\* The callback calls CancelServerEvent / CancelPlayerEvent.
CallbackCancelsKey ==
    \E ev \in GlobalEvents :
      /\ InCallback
      /\ CancelGlobalEventFor(ev)
      /\ trigger' = Invalidated(m_globalHandlers')
      /\ UNCHANGED <<tvars, update, hvars, xvars>>

\* handler.callCount++ through the reference `handler`, which is the element
\* at the iterator's position.
Counted(handlerMap, key, pos) ==
    [handlerMap EXCEPT ![key][pos].callCount = @ + 1]

\* The history of completed executions goes with the callback that ran.
RanIn(handlerMap, func) ==
    [k \in DOMAIN handlerMap |->
        [i \in 1 .. Len(handlerMap[k]) |->
            IF handlerMap[k][i].function = func
            THEN [handlerMap[k][i] EXCEPT !.ran = @ + 1]
            ELSE handlerMap[k][i]]]

\* The callback returns and ExecuteHandler finishes.  After an invalidation
\* the increment lands on the element now at the position, or outside the
\* vector, or the access stops the process.
CallbackReturns ==
    \E o \in PlainOutcomes :
      /\ InCallback
      /\ IF ~valid(o)
         THEN /\ UNCHANGED m_globalHandlers
              /\ trigger' = [trigger EXCEPT !.running = 0, !.pos = @ + 1]
         ELSE \/ /\ trigger.pos <= Len(Iterated)
                 /\ m_globalHandlers' =
                        Counted(RanIn(m_globalHandlers, trigger.running),
                                KeyOf(trigger.event), trigger.pos)
                 /\ trigger' = [trigger EXCEPT !.running = 0, !.pos = @ + 1,
                                               !.executed = @ + 1]
              \/ /\ trigger.invalidated
                 /\ m_globalHandlers' = RanIn(m_globalHandlers, trigger.running)
                 /\ trigger' = [trigger EXCEPT !.running = 0, !.pos = @ + 1,
                                               !.executed = @ + 1]
              \/ /\ trigger.invalidated
                 /\ UNCHANGED m_globalHandlers
                 /\ trigger' = Crashed
      /\ UNCHANGED <<m_entryHandlers, m_uniqueHandlers, m_nextHandlerId,
                     m_initialized, regCount, maxIssued, last>>
      /\ UNCHANGED <<tvars, update, hvars, xvars>>

\* The loop has ended: RemoveExpiredHandlers(handlers); return executed.
TriggerEnds ==
    /\ trigger.active
    /\ trigger.running = 0
    /\ trigger.pos > trigger.end
    /\ \/ /\ KeyOf(trigger.event) \in DOMAIN m_globalHandlers
          /\ m_globalHandlers' =
                 [m_globalHandlers EXCEPT
                     ![KeyOf(trigger.event)] = RemoveExpiredHandlers(@)]
          /\ last' = Op("TriggerGlobalEvent", trigger.event, 0, 0, <<>>, <<>>,
                        trigger.executed)
          /\ trigger' = Idle
       \/ /\ trigger.invalidated
          /\ UNCHANGED <<m_globalHandlers, last>>
          /\ trigger' = Crashed
    /\ UNCHANGED <<m_entryHandlers, m_uniqueHandlers, m_nextHandlerId,
                   m_initialized, regCount, maxIssued>>
    /\ UNCHANGED <<tvars, update, hvars, xvars>>

\* A top-level registration, made while no Trigger is running.
RegisteredOutside ==
    /\ trigger = Idle
    /\ RegisterGlobalEvent

NextReentrant ==
    \/ RegisteredOutside
    \/ TriggerBegins
    \/ HandlerEntered
    \/ CallbackRegisters
    \/ CallbackCancels
    \/ CallbackCancelsKey
    \/ CallbackReturns
    \/ TriggerEnds

SpecReentrant == Init /\ [][NextReentrant]_vars

\* The callback does something that raises an event again: a nested
\* TriggerGlobalEvent, whose own callbacks return without raising more, runs
\* its loop and its RemoveExpiredHandlers and returns into the callback.
CallbackTriggers ==
    \E ev \in GlobalEvents :
      /\ InCallback
      /\ Triggered("TriggerGlobalEvent", m_globalHandlers, ev)
      /\ trigger' = Invalidated(m_globalHandlers')
      /\ UNCHANGED <<m_entryHandlers, m_uniqueHandlers>>
      /\ UNCHANGED <<tvars, update, hvars, xvars>>

\* Handlers whose callbacks register and raise events.
NextNested ==
    \/ RegisteredOutside
    \/ TriggerBegins
    \/ HandlerEntered
    \/ CallbackRegisters
    \/ CallbackTriggers
    \/ CallbackReturns
    \/ TriggerEnds

SpecNested == Init /\ [][NextNested]_vars

(* ---------- callbacks that call back into the TimedEventManager -------- *)

\* Update taken one loop step at a time, so that the Lua callback of a timed
\* event can itself call CreateLuaEvent, RemoveTimedEvent and
\* RemoveAllTimedEvents, which act on m_events and m_globalEvents at once.

\* UpdateEventList(m_globalEvents, nullptr, diff) at the first element of the
\* index.  order is the sequence in which the unordered_set yields its
\* elements, running the event whose callback is being executed (0: none),
\* invalidated says that the loop's iterator or its reference `event` has
\* been invalidated.
Updating(order, diff) ==
    [active |-> TRUE, order |-> order, pos |-> 1, diff |-> diff,
     eventsToRemove |-> <<>>, running |-> 0, invalidated |-> FALSE,
     invoked |-> {}, reported |-> {}]

InTimedCallback == update.active /\ update.running # 0

\* Update up to the loop.
UpdateBegins ==
    \E diff \in Diffs :
      /\ update = Idle
      /\ IF m_globalEvents = {}
         THEN /\ timedLast' = TimedOp("Update", 0, NullObject, diff, {}, {}, {}, 0)
              /\ UNCHANGED update
         ELSE /\ \E order \in Orders(m_globalEvents) :
                     update' = Updating(order, diff)
              /\ UNCHANGED timedLast
      /\ UNCHANGED <<m_events, m_objectEvents, m_globalEvents, m_nextEventId,
                     timedCount, timedIssued>>
      /\ UNCHANGED <<evars, trigger, hvars, xvars>>

\* One iteration up to the call of the callback: m_events.find(eventId),
\* event.elapsed += diff, and the test whether the event is ready.  Stepping
\* an invalidated iterator may also stop the process.
EventEntered ==
    /\ update.active
    /\ update.running = 0
    /\ update.pos <= Len(update.order)
    /\ \/ LET eventId == update.order[update.pos] IN
          IF eventId \notin DOMAIN m_events
          THEN /\ update' = [update EXCEPT !.pos = @ + 1]
               /\ UNCHANGED m_events
          ELSE LET added == [m_events[eventId] EXCEPT
                                !.elapsed = AddUInt32(@, update.diff),
                                !.age = Min(@ + update.diff, MaxAge)]
               IN /\ m_events' = [m_events EXCEPT ![eventId] = added]
                  /\ update' = IF ReadyToExecute(added)
                               THEN [update EXCEPT
                                        !.running = eventId,
                                        !.invoked = @ \cup {eventId}]
                               ELSE [update EXCEPT !.pos = @ + 1]
       \/ /\ update.invalidated
          /\ update' = Crashed
          /\ UNCHANGED m_events
    /\ UNCHANGED <<m_objectEvents, m_globalEvents, m_nextEventId, timedCount,
                   timedIssued, timedLast>>
    /\ UNCHANGED <<evars, trigger, hvars, xvars>>

\* The callback calls CreateLuaEvent.  The insertion into m_globalEvents
\* may rehash, which invalidates the loop's iterator; otherwise the new
\* element lies before or after the iterator's position.
TimedCallbackRegisters ==
    \E delay \in Delays, repeats \in Repeats, rehash \in BOOLEAN,
       ahead \in BOOLEAN :
      LET eventId == m_nextEventId IN
      /\ InTimedCallback
      /\ timedCount < MaxTimed
      /\ TimedIssue(eventId)
      /\ m_events' = Emplace(m_events, eventId,
                             TimedEvent(eventId, timedCount + 1, delay, repeats,
                                        EmptyGuid, "GLOBAL"))
      /\ m_globalEvents' = m_globalEvents \cup {eventId}
      /\ update' = [update EXCEPT
                       !.invalidated = @ \/ rehash,
                       !.order = IF ahead THEN Append(@, eventId) ELSE @]
      /\ UNCHANGED <<m_objectEvents, timedLast>>
      /\ UNCHANGED <<evars, trigger, hvars, xvars>>

\* What is left of the iteration order once ids have been erased.
Remaining(order, gone) == SelectSeq(order, LAMBDA id : id \notin gone)

\* The erasure of elements from the iterated index: the iterator is
\* invalidated when its own element is erased; elements not yet visited
\* drop out of the iteration.
Erased(gone) ==
    LET done == SubSeq(update.order, 1, update.pos)
        rest == SubSeq(update.order, update.pos + 1, Len(update.order))
    IN [update EXCEPT
           !.invalidated = @ \/ update.running \in gone,
           !.order = done \o Remaining(rest, gone)]

\* The callback calls RemoveTimedEvent(eventId).
TimedCallbackRemoves ==
    \E eventId \in EventIds :
      LET r == RemoveEventIn(Current, eventId) IN
      /\ InTimedCallback
      /\ Install(r.c)
      /\ update' = Erased(m_globalEvents \ r.c.globalEvents)
      /\ UNCHANGED <<m_nextEventId, timedCount, timedIssued, timedLast>>
      /\ UNCHANGED <<evars, trigger, hvars, xvars>>

\* The callback calls RemoveAllTimedEvents.
TimedCallbackRemovesAll ==
    /\ InTimedCallback
    /\ Install(RemoveAllGlobalEventsIn(Current))
    /\ update' = Erased(m_globalEvents)
    /\ UNCHANGED <<m_nextEventId, timedCount, timedIssued, timedLast>>
    /\ UNCHANGED <<evars, trigger, hvars, xvars>>

\* The callback returns: ExecuteEvent logs a failure, then event.elapsed = 0
\* and the repeat count are written through the reference `event`.  When the
\* event has been erased meanwhile the reference dangles: the writes land
\* outside m_events, with or without the id being queued for removal, or the
\* access stops the process.
TimedCallbackReturns ==
    \E o \in TimedOutcomes, queued \in BOOLEAN :
      LET eventId == update.running
          logged == IF o # "ok" THEN update.reported \cup {eventId}
                    ELSE update.reported
      IN
      /\ InTimedCallback
      /\ \/ /\ eventId \in DOMAIN m_events
            /\ ~queued
            /\ LET event == HandleRepeatCount(
                                [m_events[eventId] EXCEPT
                                    !.elapsed = 0, !.age = 0,
                                    !.fired = Min(@ + 1, MaxFired)])
               IN /\ m_events' = [m_events EXCEPT ![eventId] = event]
                  /\ update' =
                       [update EXCEPT
                           !.running = 0, !.pos = @ + 1, !.reported = logged,
                           !.eventsToRemove =
                               IF event.repeats > 0 /\ event.remainingRepeats = 0
                               THEN Append(@, eventId) ELSE @]
         \/ /\ eventId \notin DOMAIN m_events
            /\ UNCHANGED m_events
            /\ update' = [update EXCEPT
                             !.running = 0, !.pos = @ + 1, !.reported = logged,
                             !.eventsToRemove =
                                 IF queued THEN Append(@, eventId) ELSE @]
         \/ /\ eventId \notin DOMAIN m_events
            /\ ~queued
            /\ UNCHANGED m_events
            /\ update' = Crashed
      /\ UNCHANGED <<m_objectEvents, m_globalEvents, m_nextEventId, timedCount,
                     timedIssued, timedLast>>
      /\ UNCHANGED <<evars, trigger, hvars, xvars>>

\* The loop has ended: the batch removal, and Update returns.
UpdateEnds ==
    /\ update.active
    /\ update.running = 0
    /\ update.pos > Len(update.order)
    /\ Install(BatchRemove(Current, update.eventsToRemove, 1))
    /\ timedLast' =
           TimedOp("Update", 0, NullObject, update.diff, update.invoked,
                   update.reported,
                   {m_events[update.eventsToRemove[i]] :
                       i \in {j \in 1 .. Len(update.eventsToRemove) :
                                 update.eventsToRemove[j] \in DOMAIN m_events}},
                   0)
    /\ update' = Idle
    /\ UNCHANGED <<m_nextEventId, timedCount, timedIssued>>
    /\ UNCHANGED <<evars, trigger, hvars, xvars>>

\* A top-level CreateLuaEvent, made while no Update is running.
TimedRegisteredOutside ==
    /\ update = Idle
    /\ TimedRegisterGlobalEvent

NextTimedReentrant ==
    \/ TimedRegisteredOutside
    \/ UpdateBegins
    \/ EventEntered
    \/ TimedCallbackRegisters
    \/ TimedCallbackRemoves
    \/ TimedCallbackRemovesAll
    \/ TimedCallbackReturns
    \/ UpdateEnds

SpecTimedReentrant == Init /\ [][NextTimedReentrant]_vars

(* ------------------------------- the host ------------------------------ *)

\* The hooks of PlayerHooks, and the Lua methods of Player that a script
\* calls on a player that is logged in.

Players == {obj \in WorldObjects : obj.kind = "PLAYER"}

\* PlayerEvent::ON_LOGIN, PlayerEvent::ON_LOGOUT
LoginEvent == Event("global", "PlayerEvent", 3, 0)

LogoutEvent == Event("global", "PlayerEvent", 4, 0)

\* TriggerPlayerEvent(eventType, player)
TriggerPlayerEvent(ev) ==
    /\ Triggered("TriggerGlobalEvent", m_globalHandlers, ev)
    /\ UNCHANGED <<m_entryHandlers, m_uniqueHandlers>>

OnPlayerLogin ==
    \E player \in Players \ online :
      /\ TriggerPlayerEvent(LoginEvent)
      /\ online' = online \cup {player}
      /\ UNCHANGED <<tvars, trigger, update, threads, s_luaMutex, xvars>>

OnPlayerLogout ==
    \E player \in online :
      /\ TriggerPlayerEvent(LogoutEvent)
      /\ online' = online \ {player}
      /\ UNCHANGED <<tvars, trigger, update, threads, s_luaMutex, xvars>>

\* player:RegisterEvent(callback, delay, repeats)
PlayerRegisterEvent ==
    /\ RegisterObjectEvent
    /\ timedLast'.obj \in online

\* player:RemoveEvents()
PlayerRemoveEvents ==
    /\ RemoveObjectEvents
    /\ \E player \in online : player.guid = timedLast'.obj.guid

\* OnPlayerUpdate(player, diff) for a player that is in the world.
OnPlayerUpdate ==
    /\ UpdateObjectEvents
    /\ timedLast'.obj \in online

NextHost ==
    \/ OnPlayerLogin
    \/ OnPlayerLogout
    \/ PlayerRegisterEvent
    \/ PlayerRemoveEvents
    \/ OnPlayerUpdate

SpecHost == Init /\ [][NextHost]_vars

(* ---------------------- hooks on several threads ----------------------- *)

\* OnWorldObjectUpdate called by the map update threads of the host, each
\* for an object of its own map, all on the one TimedEventManager of the
\* master state.  UpdateObjectEvents is taken one loop step at a time; the
\* only lock is the LuaGuard that ExecuteEvent holds around the callback.

\* A thread inside UpdateEventList for obj.  pc is its position: "loop" at
\* the head of the loop body for order[pos], "lock" at the LuaGuard of
\* ExecuteEvent, "callback" inside it, "reset" after ExecuteEvent has
\* returned, "crashed" once an unsynchronized access has stopped the process.
InUpdate(obj, diff, order) ==
    [pc |-> "loop", obj |-> obj, diff |-> diff, order |-> order, pos |-> 1,
     eventsToRemove |-> <<>>]

\* The positions at which a thread reads or writes m_events, m_objectEvents
\* or the fields of a TimedEvent.
Accessing(t) == threads[t].pc \in {"loop", "callback", "reset"}

\* No unsynchronized access has stopped the process.
Running == \A t \in Threads : threads[t].pc # "crashed"

\* A script registers an event on an object while no thread is in a hook.
ObjectRegistersOutside ==
    /\ \A t \in Threads : threads[t] = Outside
    /\ RegisterObjectEvent

\* OnWorldObjectUpdate -> UpdateObjectEvents up to the loop.
ThreadEnters(t) ==
    \E obj \in WorldObjects, diff \in Diffs :
      /\ Running
      /\ threads[t] = Outside
      /\ \A u \in Threads \ {t} :
           threads[u] # Outside => threads[u].obj.guid # obj.guid
      /\ obj.guid \in DOMAIN m_objectEvents
      /\ \E order \in Orders(m_objectEvents[obj.guid]) :
           threads' = [threads EXCEPT ![t] = InUpdate(obj, diff, order)]
      /\ UNCHANGED <<evars, tvars, trigger, update, online, s_luaMutex, xvars>>

\* m_events.find(eventId), event.elapsed += diff and the test of the delay,
\* made without the mutex; while another thread is accessing the containers
\* the access may also stop the process.
ThreadScans(t) ==
    LET self == threads[t] IN
    /\ Running
    /\ self.pc = "loop"
    /\ self.pos <= Len(self.order)
    /\ \/ LET eventId == self.order[self.pos] IN
          IF eventId \notin DOMAIN m_events
          THEN /\ threads' = [threads EXCEPT ![t].pos = @ + 1]
               /\ UNCHANGED m_events
          ELSE LET added == [m_events[eventId] EXCEPT
                                !.elapsed = AddUInt32(@, self.diff),
                                !.age = Min(@ + self.diff, MaxAge)]
               IN /\ m_events' = [m_events EXCEPT ![eventId] = added]
                  /\ threads' = IF ReadyToExecute(added)
                                THEN [threads EXCEPT ![t].pc = "lock"]
                                ELSE [threads EXCEPT ![t].pos = @ + 1]
       \/ /\ \E u \in Threads \ {t} : Accessing(u)
          /\ threads' = [threads EXCEPT ![t] = [pc |-> "crashed"]]
          /\ UNCHANGED m_events
    /\ UNCHANGED <<m_objectEvents, m_globalEvents, m_nextEventId, timedCount,
                   timedIssued, timedLast>>
    /\ UNCHANGED <<evars, trigger, update, online, s_luaMutex, xvars>>

\* ExecuteEvent without the guard.
ThreadLocks_Unguarded(t) ==
    /\ Running
    /\ threads[t].pc = "lock"
    /\ s_luaMutex' = [owner |-> t, count |-> s_luaMutex.count + 1]
    /\ threads' = [threads EXCEPT ![t].pc = "callback"]
    /\ UNCHANGED <<evars, tvars, trigger, update, online, xvars>>

\* LuaGuard guard: lock of the recursive mutex.
ThreadLocks(t) ==
    /\ Running
    /\ threads[t].pc = "lock"
    /\ s_luaMutex.owner \in {0, t}
    /\ s_luaMutex' = [owner |-> t, count |-> s_luaMutex.count + 1]
    /\ threads' = [threads EXCEPT ![t].pc = "callback"]
    /\ UNCHANGED <<evars, tvars, trigger, update, online, xvars>>

\* The callback calls obj:RegisterEvent on its object.
ThreadCallbackRegisters(t) ==
    /\ Running
    /\ threads[t].pc = "callback"
    /\ ExecuteEvent(m_events[threads[t].order[threads[t].pos]],
                    threads[t].obj, "ok").invoked
    /\ RegisterObjectEvent
    /\ timedLast'.obj = threads[t].obj

\* ExecuteEvent returns: the guard unlocks the mutex.
ThreadUnlocks(t) ==
    /\ Running
    /\ threads[t].pc = "callback"
    /\ s_luaMutex' = IF s_luaMutex.count = 1 THEN Unowned
                     ELSE [s_luaMutex EXCEPT !.count = @ - 1]
    /\ threads' = [threads EXCEPT ![t].pc = "reset"]
    /\ UNCHANGED <<evars, tvars, trigger, update, online, xvars>>

\* event.elapsed = 0 and the repeat count, made without the mutex.
ThreadResets(t) ==
    LET self == threads[t]
        eventId == self.order[self.pos]
        event == HandleRepeatCount([m_events[eventId] EXCEPT
                                       !.elapsed = 0, !.age = 0,
                                       !.fired = Min(@ + 1, MaxFired)])
    IN
    /\ Running
    /\ self.pc = "reset"
    /\ m_events' = [m_events EXCEPT ![eventId] = event]
    /\ threads' = [threads EXCEPT
                      ![t].pc = "loop",
                      ![t].pos = @ + 1,
                      ![t].eventsToRemove =
                          IF event.repeats > 0 /\ event.remainingRepeats = 0
                          THEN Append(@, eventId) ELSE @]
    /\ UNCHANGED <<m_objectEvents, m_globalEvents, m_nextEventId, timedCount,
                   timedIssued, timedLast>>
    /\ UNCHANGED <<evars, trigger, update, online, s_luaMutex, xvars>>

\* The loop has ended: the batch removal, made without the mutex, and the
\* hook returns.
ThreadLeaves(t) ==
    LET self == threads[t] IN
    /\ Running
    /\ self.pc = "loop"
    /\ self.pos > Len(self.order)
    /\ Install(BatchRemove(Current, self.eventsToRemove, 1))
    /\ threads' = [threads EXCEPT ![t] = Outside]
    /\ UNCHANGED <<m_nextEventId, timedCount, timedIssued, timedLast>>
    /\ UNCHANGED <<evars, trigger, update, online, s_luaMutex, xvars>>

NextThreads ==
    \/ ObjectRegistersOutside
    \/ \E t \in Threads : ThreadEnters(t)
    \/ \E t \in Threads : ThreadScans(t)
    \/ \E t \in Threads : ThreadLocks(t)
    \/ \E t \in Threads : ThreadCallbackRegisters(t)
    \/ \E t \in Threads : ThreadUnlocks(t)
    \/ \E t \in Threads : ThreadResets(t)
    \/ \E t \in Threads : ThreadLeaves(t)

SpecThreads == Init /\ [][NextThreads]_vars

(* ------------------------------ properties ----------------------------- *)

RegisterOps == {"RegisterGlobalEvent", "RegisterEntryEvent", "RegisterUniqueEvent"}

PlainTriggerOps == {"TriggerGlobalEvent", "TriggerEntryEvent", "TriggerUniqueEvent"}

ReturnTriggerOps == {"TriggerGlobalEventWithReturn", "TriggerEntryEventWithReturn"}

TriggerOps == PlainTriggerOps \cup ReturnTriggerOps

MapFor(store) ==
    CASE store = "global" -> m_globalHandlers
      [] store = "entry" -> m_entryHandlers
      [] store = "unique" -> m_uniqueHandlers

\* Every stored handler with its store and bucket.
LocatedIn(store) ==
    UNION {{<<store, k, MapFor(store)[k][i]>> : i \in 1 .. Len(MapFor(store)[k])} :
             k \in DOMAIN MapFor(store)}

Located == LocatedIn("global") \cup LocatedIn("entry") \cup LocatedIn("unique")

Stored == {x[3] : x \in Located}

\* In a step: the bucket, before the call, of the event the call names.
PreBucket == Bucket(MapFor(last'.event.store), KeyOf(last'.event))

\* In a step of a Trigger* call: the positions of the bucket whose callback
\* was invoked and returned a valid result, failed, or produced a value of
\* the requested type.
Succeeded ==
    {i \in 1 .. Len(last'.called) :
        last'.called[i] /\ last'.outcomes[i] \notin {"throw", "invalid"}}

Failed ==
    {i \in 1 .. Len(last'.called) :
        last'.called[i] /\ last'.outcomes[i] \in {"throw", "invalid"}}

Producers ==
    {i \in 1 .. Len(last'.called) :
        last'.called[i] /\ last'.outcomes[i] \in {"v1", "v2"}}

Produced(o) == CASE o = "v1" -> 1 [] o = "v2" -> 2

\* C1: a handler with shotLimit N > 0 is successfully executed at most N
\* times, and is no longer stored when the Trigger call of its N-th success
\* returns: no stored handler has run N times, every success finds its
\* handler below N, and the success that reaches N leaves it removed.
C1_ShotLimit ==
    [][ /\ \A h \in Stored' : h.shots > 0 => h.ran < h.shots
        /\ last'.op \in TriggerOps =>
             \A i \in Succeeded :
               LET h == PreBucket[i] IN
               h.shots > 0 =>
                 /\ h.ran < h.shots
                 /\ h.ran + 1 = h.shots =>
                      \A g \in Stored' : g.function # h.function ]_vars

C1_Witness ==
    /\ last.op = "TriggerGlobalEvent"
    /\ last.called = <<TRUE>>
    /\ last.outcomes = <<"none">>
    /\ KeyOf(last.event) \in DOMAIN m_globalHandlers
    /\ m_globalHandlers[KeyOf(last.event)] = <<>>

\* C2: Trigger*EventWithReturn returns the value of the handler registered
\* last among those that executed successfully and returned a value of the
\* requested type.
C2_LastProducerWins ==
    [][ (last'.op \in ReturnTriggerOps /\ Producers # {}) =>
          LET b == PreBucket
              w == CHOOSE i \in Producers :
                     \A j \in Producers : b[j].function <= b[i].function
          IN last'.ret = Produced(last'.outcomes[w]) ]_vars

C2_Witness ==
    /\ last.op \in ReturnTriggerOps
    /\ last.called = <<TRUE, TRUE>>
    /\ \/ last.outcomes = <<"v1", "v2">> /\ last.ret = 2
       \/ last.outcomes = <<"v2", "none">> /\ last.ret = 2 /\ last.def # 2

\* C3: Trigger*EventWithReturn returns defaultValue when the bucket is
\* missing or empty, no handler succeeded, or no successful handler returned
\* a value of the requested type.
C3_DefaultReturned ==
    [][ (last'.op \in ReturnTriggerOps /\ Producers = {}) =>
          last'.ret = last'.def ]_vars

C3_Witness ==
    /\ last.op = "TriggerGlobalEventWithReturn"
    /\ last.called = <<TRUE, TRUE>>
    /\ last.outcomes = <<"throw", "other">>
    /\ last.def = 1
    /\ last.ret = 1

\* C4: in a Trigger* call a failing handler keeps its callCount, is not
\* counted in the returned count, and every handler after it in the bucket
\* is still invoked; the call returns normally.
C4_FailureIsolated ==
    [][ last'.op \in TriggerOps =>
          LET b == PreBucket IN
          /\ last'.op \in PlainTriggerOps =>
               last'.ret \in 0 .. (Len(b) - Cardinality(Failed))
          /\ \A i \in Failed :
               /\ \E h \in Stored' : /\ h.function = b[i].function
                                     /\ h.callCount = b[i].callCount
               /\ \A j \in (i + 1) .. Len(b) : last'.called[j] ]_vars

C4_Witness ==
    /\ last.op = "TriggerEntryEvent"
    /\ last.outcomes = <<"throw", "none">>
    /\ last.called = <<TRUE, TRUE>>
    /\ last.ret = 1

\* The handlers (or outcomes) xs at the positions whose callback did not fail.
RECURSIVE DropFailed(_, _)
DropFailed(xs, outs) ==
    IF outs = <<>> THEN <<>>
    ELSE (IF Head(outs) \in {"throw", "invalid"} THEN <<>> ELSE <<Head(xs)>>)
         \o DropFailed(Tail(xs), Tail(outs))

\* C5: the value Trigger*EventWithReturn returns is the value the same call
\* returns on the bucket with the failing handlers left out.
C5_FailureIgnored ==
    [][ last'.op \in ReturnTriggerOps =>
          LET outs == last'.outcomes IN
          last'.ret = WithReturnScan(DropFailed(PreBucket, outs),
                                     DropFailed(outs, outs),
                                     last'.def).returnValue ]_vars

C5_Witness ==
    /\ last.op \in ReturnTriggerOps
    /\ last.called = <<TRUE, TRUE>>
    /\ last.outcomes = <<"v2", "invalid">>
    /\ last.def = 0
    /\ last.ret = 2

\* C6: a Trigger invokes exactly the handlers registered for the event it
\* names, in the store it names; every handler registered for another
\* enumeration, entry, guid or store is left as it was.
C6_KeyIsolation ==
    [][ last'.op \in TriggerOps =>
          /\ \A x \in Located : x[3].event # last'.event => x \in Located'
          /\ Len(last'.called) =
                 Cardinality({h \in Stored : h.event = last'.event}) ]_vars

C6_Witness ==
    /\ last.op = "TriggerGlobalEvent"
    /\ last.ret = 1
    /\ \E h \in Stored : /\ h.event.store = "global"
                         /\ h.event.enum # last.event.enum
                         /\ h.event.type = last.event.type
                         /\ h.ran = 0

\* C7: Cancel(handlerId) returns true exactly when a handler with that id
\* is stored, removes exactly that handler, and leaves no handler with that
\* id behind (a second Cancel returns false, no Trigger invokes it).
C7_CancelOnce ==
    [][ last'.op = "CancelEvent" =>
          /\ last'.ret = (\E h \in Stored : h.id = last'.arg)
          /\ last'.ret => \E x \in Located : /\ x[3].id = last'.arg
                                             /\ Located' = Located \ {x}
          /\ ~last'.ret => Located' = Located
          /\ \A h \in Stored' : h.id # last'.arg ]_vars

\* C8: CancelStateEvents(s) removes every handler whose stateId is s, from
\* all three stores, and removes or changes no other handler.
C8_ScopeExact ==
    [][ last'.op = "CancelStateEvents" =>
          Located' = {x \in Located : x[3].stateId # last'.arg} ]_vars

C8_Witness ==
    /\ last.op = "CancelStateEvents"
    /\ last.ret >= 1
    /\ \E h \in Stored : h.stateId # last.arg /\ h.callCount > 0

\* C9: the count Trigger*Event returns is the number of handlers whose
\* callback was invoked and succeeded in that call; an emptied bucket gives 0.
C9_ExecutedCount ==
    [][ last'.op \in PlainTriggerOps =>
          last'.ret = Cardinality(Succeeded) ]_vars

C9_Witness ==
    /\ last.op = "TriggerGlobalEvent"
    /\ regCount >= 1
    /\ KeyOf(last.event) \in DOMAIN m_globalHandlers
    /\ m_globalHandlers[KeyOf(last.event)] = <<>>
    /\ last.outcomes = <<>>
    /\ last.ret = 0

\* C10: every handlerId returned by Register* is greater than every
\* handlerId returned before, and no two stored handlers share an id.
C10_IdsIncrease ==
    [][ /\ last'.op \in RegisterOps => last'.ret > maxIssued
        /\ \A x, y \in Located' : x[3].id = y[3].id => x = y ]_vars

\* C18: from the start of a TriggerGlobalEvent loop to its end the vector it
\* iterates keeps the same handlers in the same order, whatever the callbacks
\* register or cancel meanwhile, and a callCount changes only for the handler
\* whose callback is running.
C18_ScanUndisturbed ==
    [][ (trigger.active /\ trigger'.active) =>
          /\ KeyOf(trigger.event) \in DOMAIN m_globalHandlers'
          /\ Callbacks(m_globalHandlers'[KeyOf(trigger.event)])
               = Callbacks(Iterated)
          /\ \A before \in Stored, after \in Stored' :
               ( /\ before.function = after.function
                 /\ before.callCount # after.callCount )
               => before.function = trigger.running ]_vars

\* C20: when Shutdown returns, no handler is stored in the global, entry or
\* unique store, whatever Register*, Initialize and Shutdown calls came
\* before it.
C20_ShutdownEmpties ==
    [][ last'.op = "Shutdown" => Located' = {} ]_vars

CancelKeyOps == {"CancelGlobalEvent", "CancelEntryEvent", "CancelUniqueEvent"}

Stores == {"global", "entry", "unique"}

\* C21: Cancel{Global,Entry,Unique}Event removes the bucket of the key it
\* names, with every handler in it, from the store it names; every other
\* bucket of that store, the two other stores and m_nextHandlerId are as
\* before; when the key has no bucket nothing changes.
C21_CancelKeyExact ==
    [][ last'.op \in CancelKeyOps =>
          /\ m_nextHandlerId' = m_nextHandlerId
          /\ \A s \in Stores :
               IF s # last'.event.store
               THEN MapFor(s)' = MapFor(s)
               ELSE /\ DOMAIN MapFor(s)' = DOMAIN MapFor(s) \ {KeyOf(last'.event)}
                    /\ \A k \in DOMAIN MapFor(s)' : MapFor(s)'[k] = MapFor(s)[k]
                    /\ KeyOf(last'.event) \notin DOMAIN MapFor(s) =>
                         MapFor(s)' = MapFor(s)
          /\ \A x \in Located' : x[3].event # last'.event ]_vars

\* CancelEntryEvent has dropped one of two registered handlers: the other,
\* registered for another entry, is still stored.
C21_Witness ==
    /\ last.op = "CancelEntryEvent"
    /\ regCount = 2
    /\ KeyOf(last.event) \notin DOMAIN m_entryHandlers
    /\ \E x \in Located :
         /\ Located = {x}
         /\ x[1] = "entry"
         /\ x[2] # KeyOf(last.event)
         /\ x[3].shots = 0

\* C22: a Trigger* call for a key that has no bucket invokes nothing and
\* returns 0, or defaultValue for the WithReturn variants; the three stores
\* (so every bucket and every callCount) and m_nextHandlerId are as before.
C22_MissIsSilent ==
    [][ ( /\ last'.op \in TriggerOps
          /\ KeyOf(last'.event) \notin DOMAIN MapFor(last'.event.store) ) =>
          /\ last'.called = <<>>
          /\ last'.ret = IF last'.op \in PlainTriggerOps THEN 0 ELSE last'.def
          /\ m_globalHandlers' = m_globalHandlers
          /\ m_entryHandlers' = m_entryHandlers
          /\ m_uniqueHandlers' = m_uniqueHandlers
          /\ m_nextHandlerId' = m_nextHandlerId ]_vars

\* TriggerEntryEventWithReturn for an entry without bucket, with default 1,
\* while a handler of another entry that has run is stored.
C22_Witness ==
    /\ last.op = "TriggerEntryEventWithReturn"
    /\ KeyOf(last.event) \notin DOMAIN m_entryHandlers
    /\ last.def = 1
    /\ last.ret = 1
    /\ last.called = <<>>
    /\ \E x \in Located : x[1] = "entry" /\ x[3].callCount = 1

\* The callbacks of a bucket that are also in the bucket other, in order.
Surviving(handlers, other) ==
    SelectSeq(Callbacks(handlers),
              LAMBDA f : \E i \in 1 .. Len(other) : other[i].function = f)

\* C28: in every bucket the handlers stand in the order in which they
\* were registered, which is the order in which a Trigger walks them, and
\* whatever a call removes from a bucket (CancelEvent, CancelStateEvents, the
\* pruning of expired handlers) the handlers that stay keep their order.
C28_RegistrationOrder ==
    [][ \A s \in Stores :
          /\ \A k \in DOMAIN MapFor(s)' :
               \A i, j \in 1 .. Len(MapFor(s)'[k]) :
                 i < j => MapFor(s)'[k][i].function < MapFor(s)'[k][j].function
          /\ \A k \in DOMAIN MapFor(s) \cap DOMAIN MapFor(s)' :
               Surviving(MapFor(s)'[k], MapFor(s)[k])
                 = Surviving(MapFor(s)[k], MapFor(s)'[k]) ]_vars

\* CancelEvent has removed the second of three handlers of a bucket.
C28_Witness ==
    /\ last.op = "CancelEvent"
    /\ last.ret = TRUE
    /\ last.arg = 2
    /\ \E k \in DOMAIN m_globalHandlers :
         Callbacks(m_globalHandlers[k]) = <<1, 3>>

\* C34: a TriggerGlobalEvent made from inside the callback of a handler
\* with shots = N > 0 invokes that handler only if, with the invocation in
\* progress, it has been invoked fewer than N times; and when it names the
\* event whose bucket the outer TriggerGlobalEvent is iterating, it leaves
\* that bucket with the same handlers in the same order.
C34_NestedTriggerBounded ==
    [][ ( /\ InCallback
          /\ last' # last
          /\ last'.op = "TriggerGlobalEvent" )
        => /\ \A i \in 1 .. Len(last'.called) :
                LET h == PreBucket[i] IN
                ( /\ last'.called[i]
                  /\ h.function = trigger.running
                  /\ h.shots > 0 )
                => h.ran + 1 < h.shots
           /\ KeyOf(last'.event) = KeyOf(trigger.event) =>
                /\ KeyOf(trigger.event) \in DOMAIN m_globalHandlers'
                /\ Callbacks(m_globalHandlers'[KeyOf(trigger.event)])
                     = Callbacks(Iterated) ]_vars

(* ================= properties of the TimedEventManager ================= *)

TimedRegisterOps == {"RegisterGlobalEvent", "RegisterObjectEvent"}

UpdateOps == {"Update", "UpdateObjectEvents"}

\* The events the Update* call just made looked at: those of the index it
\* iterates that are stored.
Scanned ==
    LET obj == timedLast'.obj
        ids == IF timedLast'.op = "Update" THEN m_globalEvents
               ELSE IF obj.guid \in DOMAIN m_objectEvents
               THEN m_objectEvents[obj.guid] ELSE {}
    IN ids \cap DOMAIN m_events

\* Those of them that come due in the call.
Due == {id \in Scanned :
           m_events[id].age + timedLast'.diff >= m_events[id].delay}

\* C12: a global event registered with delay d > 0 and repeats = 1 is not
\* invoked by an Update while the diffs since its registration sum to less
\* than d; the first Update at which they reach d invokes it, for the only
\* time, and removes it from m_events and m_globalEvents; an Update invokes
\* nothing but stored global events, so no later Update touches it.
C12_OneShotFiresOnce ==
    [][ timedLast'.op = "Update" =>
          /\ timedLast'.invoked \subseteq m_globalEvents \cap DOMAIN m_events
          /\ \A id \in m_globalEvents \cap DOMAIN m_events :
               LET event == m_events[id] IN
               (event.repeats = 1 /\ event.delay > 0) =>
                 /\ event.fired = 0
                 /\ event.age < event.delay
                 /\ IF event.age + timedLast'.diff < event.delay
                    THEN /\ id \notin timedLast'.invoked
                         /\ id \in DOMAIN m_events'
                         /\ id \in m_globalEvents'
                         /\ m_events'[id].callback = event.callback
                         /\ m_events'[id].fired = 0
                    ELSE /\ id \in timedLast'.invoked
                         /\ id \notin DOMAIN m_events'
                         /\ id \notin m_globalEvents' ]_vars

\* The second Update of the scenario: 1 ms, then 2 ms, against a delay of 2.
C12_Witness ==
    /\ timedLast.op = "Update"
    /\ timedLast.diff = 2
    /\ \E event \in timedLast.expired :
         /\ event.objectType = "GLOBAL"
         /\ event.repeats = 1
         /\ event.delay = 2
         /\ event.fired = 1
         /\ event.id \in timedLast.invoked
         /\ event.id \notin DOMAIN m_events
         /\ event.id \notin m_globalEvents

\* C13: an event registered with repeats = n > 0 has had its callback
\* invoked fewer than n times for as long as it is stored, and the Update* call
\* that makes the n-th invocation removes it; an event registered with
\* repeats = 0 is never removed by Update / UpdateObjectEvents.
C13_RepeatLimit ==
    [][ /\ \A id \in DOMAIN m_events' :
             m_events'[id].repeats > 0 =>
                 m_events'[id].fired < m_events'[id].repeats
        /\ timedLast'.op \in UpdateOps =>
             /\ \A id \in timedLast'.invoked :
                  /\ id \in DOMAIN m_events
                  /\ LET event == m_events[id] IN
                     /\ event.repeats > 0 => event.fired < event.repeats
                     /\ (event.repeats > 0 /\ event.fired + 1 = event.repeats) =>
                          /\ id \notin DOMAIN m_events'
                          /\ id \notin m_globalEvents'
                          /\ \A g \in DOMAIN m_objectEvents' :
                                 id \notin m_objectEvents'[g]
             /\ \A id \in DOMAIN m_events :
                  m_events[id].repeats = 0 =>
                    /\ id \in DOMAIN m_events'
                    /\ m_events'[id].callback = m_events[id].callback
                    /\ id \in m_globalEvents <=> id \in m_globalEvents'
                    /\ \A g \in DOMAIN m_objectEvents :
                         id \in m_objectEvents[g] =>
                           /\ g \in DOMAIN m_objectEvents'
                           /\ id \in m_objectEvents'[g] ]_vars

\* An event with repeats = 2 leaves at its second invocation while an event
\* with repeats = 0 stays after its second.
C13_Witness ==
    /\ timedLast.op \in UpdateOps
    /\ \E event \in timedLast.expired :
         /\ event.repeats = 2
         /\ event.fired = 2
         /\ event.id \in timedLast.invoked
         /\ event.id \notin DOMAIN m_events
    /\ \E id \in DOMAIN m_events :
         /\ m_events[id].repeats = 0
         /\ m_events[id].fired = 2

\* C14: when RemoveObjectEvents(guid) returns, no event bound to guid is
\* stored and guid has no index entry; UpdateObjectEvents(obj, diff) invokes
\* only stored events bound to obj's guid; and an event bound to a guid that
\* had none appears only through RegisterObjectEvent for that guid.
C14_ObjectEventsRemoved ==
    [][ /\ timedLast'.op = "RemoveObjectEvents" =>
             /\ timedLast'.obj.guid \notin DOMAIN m_objectEvents'
             /\ \A id \in DOMAIN m_events' :
                    m_events'[id].objectGuid # timedLast'.obj.guid
        /\ timedLast'.op = "UpdateObjectEvents" =>
             \A id \in timedLast'.invoked :
                 /\ id \in DOMAIN m_events
                 /\ m_events[id].objectGuid = timedLast'.obj.guid
        /\ \A guid \in ObjectGuids :
             ( /\ \A id \in DOMAIN m_events : m_events[id].objectGuid # guid
               /\ \E id \in DOMAIN m_events' : m_events'[id].objectGuid = guid )
             => /\ timedLast'.op = "RegisterObjectEvent"
                /\ timedLast'.obj.guid = guid ]_vars

\* RemoveObjectEvents has just removed two events of one object.
C14_Witness ==
    /\ timedLast.op = "RemoveObjectEvents"
    /\ timedLast.ret = 2
    /\ timedLast.obj.guid \notin DOMAIN m_objectEvents
    /\ DOMAIN m_events = {}

\* C15: RemoveEvent(eventId) returns true exactly when eventId is stored;
\* when it returns, eventId is in neither m_events nor an index and every
\* other event is as it was; when it returns false, m_events, both indexes
\* and m_nextEventId are as they were; Update* invokes only stored events,
\* so a removed event is not invoked again.
C15_RemoveOnce ==
    [][ /\ timedLast'.op = "RemoveEvent" =>
             LET eventId == timedLast'.eventId IN
             /\ timedLast'.ret = (eventId \in DOMAIN m_events)
             /\ DOMAIN m_events' = DOMAIN m_events \ {eventId}
             /\ \A id \in DOMAIN m_events' : m_events'[id] = m_events[id]
             /\ eventId \notin m_globalEvents'
             /\ \A g \in DOMAIN m_objectEvents' : eventId \notin m_objectEvents'[g]
             /\ m_nextEventId' = m_nextEventId
             /\ ~timedLast'.ret =>
                    /\ m_events' = m_events
                    /\ m_objectEvents' = m_objectEvents
                    /\ m_globalEvents' = m_globalEvents
        /\ timedLast'.op \in UpdateOps =>
             timedLast'.invoked \subseteq DOMAIN m_events ]_vars

\* RemoveEvent has just removed one of two events bound to the same object.
C15_Witness ==
    /\ timedLast.op = "RemoveEvent"
    /\ timedLast.ret = TRUE
    /\ timedLast.eventId \notin DOMAIN m_events
    /\ \E g \in DOMAIN m_objectEvents, id \in DOMAIN m_events :
         /\ m_objectEvents[g] = {id}
         /\ id # timedLast.eventId
         /\ m_events[id].objectGuid = g

\* C16: in an Update / UpdateObjectEvents call every stored event of the
\* iterated index that comes due and whose object resolves has its callback
\* invoked, whichever callbacks of the same call threw or returned an
\* invalid result; the failures are logged and the call returns normally.
C16_TimedFailureIsolated ==
    [][ timedLast'.op \in UpdateOps =>
          /\ timedLast'.reported \subseteq timedLast'.invoked
          /\ timedLast'.invoked =
                {id \in Due :
                    \/ m_events[id].objectType = "GLOBAL"
                    \/ m_events[id].objectType = timedLast'.obj.kind} ]_vars

\* Two global events came due in one Update; one callback failed, both ran.
C16_Witness ==
    /\ timedLast.op = "Update"
    /\ timedLast.invoked = {1, 2}
    /\ timedLast.reported = {1}

\* C17: when UpdateObjectEvents is given an object that does not resolve to
\* the objectType of an event that comes due, the callback is not invoked and
\* no error is logged, while elapsed is reset to 0 and a finite repeat is
\* used up: the event is removed when that was its last repeat, without its
\* invocation count having changed.
C17_UnresolvedSkipped ==
    [][ timedLast'.op = "UpdateObjectEvents" =>
          \A id \in Due :
            LET event == m_events[id] IN
            event.objectType # timedLast'.obj.kind =>
              /\ id \notin timedLast'.invoked
              /\ id \notin timedLast'.reported
              /\ IF event.repeats > 0 /\ event.remainingRepeats = 1
                 THEN /\ id \notin DOMAIN m_events'
                      /\ \E gone \in timedLast'.expired :
                           /\ gone.id = id
                           /\ gone.fired = event.fired
                 ELSE /\ id \in DOMAIN m_events'
                      /\ m_events'[id].elapsed = 0
                      /\ m_events'[id].fired = event.fired
                      /\ m_events'[id].remainingRepeats =
                             IF event.repeats > 0
                             THEN event.remainingRepeats - 1
                             ELSE event.remainingRepeats ]_vars

\* An event with repeats = 1 bound as one type came due for an object of
\* another type: it is gone and its callback never ran.
C17_Witness ==
    /\ timedLast.op = "UpdateObjectEvents"
    /\ timedLast.invoked = {}
    /\ timedLast.reported = {}
    /\ \E gone \in timedLast.expired :
         /\ gone.repeats = 1
         /\ gone.delay = 2
         /\ gone.fired = 0
         /\ gone.objectGuid = timedLast.obj.guid
         /\ gone.objectType # timedLast.obj.kind
         /\ gone.id \notin DOMAIN m_events

\* C19: from the start of an Update loop to its end m_globalEvents, the
\* index it iterates, keeps the same elements, whatever the callbacks
\* register or remove meanwhile; what the loop itself removes leaves only
\* after the loop.
C19_IndexUndisturbed ==
    [][ (update.active /\ update'.active) =>
            m_globalEvents' = m_globalEvents ]_vars

\* C23: RemoveAllGlobalEvents removes every GLOBAL event and no object-bound
\* one; RemoveObjectEvents(guid) removes every event bound to guid and neither
\* a GLOBAL event nor one bound to another guid; the events that stay have all
\* their fields, and their index entries, as before.
C23_BulkRemovalExact ==
    [][ /\ timedLast'.op = "RemoveAllGlobalEvents" =>
             /\ DOMAIN m_events' =
                    {id \in DOMAIN m_events : m_events[id].objectType # "GLOBAL"}
             /\ \A id \in DOMAIN m_events' : m_events'[id] = m_events[id]
             /\ m_globalEvents' = {}
             /\ m_objectEvents' = m_objectEvents
        /\ timedLast'.op = "RemoveObjectEvents" =>
             LET guid == timedLast'.obj.guid IN
             /\ DOMAIN m_events' =
                    {id \in DOMAIN m_events : m_events[id].objectGuid # guid}
             /\ \A id \in DOMAIN m_events' : m_events'[id] = m_events[id]
             /\ m_globalEvents' = m_globalEvents
             /\ DOMAIN m_objectEvents' = DOMAIN m_objectEvents \ {guid}
             /\ \A g \in DOMAIN m_objectEvents' :
                    m_objectEvents'[g] = m_objectEvents[g] ]_vars

\* RemoveObjectEvents has removed the one event of its object, and a global
\* event that has been ticked is still stored.
C23_Witness ==
    /\ timedLast.op = "RemoveObjectEvents"
    /\ timedLast.ret = 1
    /\ \E id \in m_globalEvents :
         /\ id \in DOMAIN m_events
         /\ m_events[id].objectType = "GLOBAL"
         /\ m_events[id].elapsed = 1

\* C24: no stored event is bound to a player that is logged out: the
\* logout removes the events of the player from m_events and m_objectEvents,
\* so that none is left to fire when the same guid logs in and is updated
\* again.
C24_NoEventsOfOffline ==
    \A id \in DOMAIN m_events :
        m_events[id].objectType = "PLAYER" =>
            \E player \in online : player.guid = m_events[id].objectGuid

\* C25: no two threads are at the same time at a position of
\* UpdateObjectEvents, or of a callback it runs, that reads or writes
\* m_events, m_objectEvents or the elapsed / remainingRepeats of an event.
C25_Serialized ==
    \A t, u \in Threads : (Accessing(t) /\ Accessing(u)) => t = u

\* The record of event id when the Update* call just made returned: as
\* stored, or as removed by that call.
AfterUpdate(id) ==
    IF id \in DOMAIN m_events' THEN m_events'[id]
    ELSE CHOOSE event \in timedLast'.expired : event.id = id

\* C26: in an Update / UpdateObjectEvents call every scanned event whose
\* elapsed plus diff reaches its delay has its callback invoked once (when
\* its object resolves), whatever the diff, and its elapsed is 0 when the call
\* returns; every other scanned event is not invoked and has diff added.
C26_FiresOncePerCall ==
    [][ timedLast'.op \in UpdateOps =>
          \A id \in Scanned :
            LET event == m_events[id]
                diff == timedLast'.diff
                resolved == \/ event.objectType = "GLOBAL"
                            \/ event.objectType = timedLast'.obj.kind
            IN IF event.elapsed + diff >= event.delay
               THEN /\ id \notin DOMAIN m_events' =>
                         \E e \in timedLast'.expired : e.id = id
                    /\ AfterUpdate(id).elapsed = 0
                    /\ resolved <=> id \in timedLast'.invoked
                    /\ (resolved /\ event.fired < MaxFired) =>
                         AfterUpdate(id).fired = event.fired + 1
                    /\ ~resolved => AfterUpdate(id).fired = event.fired
               ELSE /\ id \notin timedLast'.invoked
                    /\ id \in DOMAIN m_events'
                    /\ m_events'[id].elapsed = event.elapsed + diff
                    /\ m_events'[id].fired = event.fired ]_vars

\* An event with delay 2 that had 1 ms elapsed was ticked with 4 ms: it has
\* fired once and starts its next interval at 0.
C26_Witness ==
    /\ timedLast.op = "Update"
    /\ timedLast.diff = 4
    /\ \E id \in timedLast.invoked \cap DOMAIN m_events :
         /\ m_events[id].delay = 2
         /\ m_events[id].repeats = 0
         /\ m_events[id].fired = 1
         /\ m_events[id].elapsed = 0

\* The events an Update* call is for: the GLOBAL ones for Update, those bound
\* to the guid of obj for UpdateObjectEvents.
Ticked ==
    IF timedLast'.op = "Update"
    THEN {id \in DOMAIN m_events : m_events[id].objectType = "GLOBAL"}
    ELSE {id \in DOMAIN m_events :
             /\ m_events[id].objectType # "GLOBAL"
             /\ m_events[id].objectGuid = timedLast'.obj.guid}

\* C27: Update invokes GLOBAL events only and UpdateObjectEvents(obj) only
\* events bound to the guid of obj; every other stored event stays stored
\* with its elapsed, its remainingRepeats and all its other fields unchanged.
C27_OnlyTickedIndex ==
    [][ timedLast'.op \in UpdateOps =>
          /\ timedLast'.invoked \subseteq Ticked
          /\ \A id \in DOMAIN m_events \ Ticked :
               /\ id \in DOMAIN m_events'
               /\ m_events'[id] = m_events[id] ]_vars

\* UpdateObjectEvents has fired an event of its object while a global event
\* and its 1 ms of elapsed time are stored.
C27_Witness ==
    /\ timedLast.op = "UpdateObjectEvents"
    /\ timedLast.invoked # {}
    /\ \E id \in m_globalEvents :
         /\ id \in DOMAIN m_events
         /\ id \notin timedLast.invoked
         /\ m_events[id].delay = 2
         /\ m_events[id].elapsed = 1

\* C29: whenever no call is in progress every stored event is armed: its
\* elapsed is below its delay, and is 0 when its delay is 0; an event whose
\* elapsed has reached its delay has been executed and reset, or removed,
\* by the call that made it reach it.
C29_Armed ==
    \A id \in DOMAIN m_events :
        /\ m_events[id].delay > 0 => m_events[id].elapsed < m_events[id].delay
        /\ m_events[id].delay = 0 => m_events[id].elapsed = 0

\* An event that has fired is half way through its next interval.
C29_Witness ==
    /\ timedLast.op \in UpdateOps
    /\ timedLast.diff = 1
    /\ \E id \in DOMAIN m_events :
         /\ m_events[id].delay = 2
         /\ m_events[id].fired = 1
         /\ m_events[id].elapsed = 1

\* C30: while Update keeps being called with a positive diff, every stored
\* GLOBAL event with repeats > 0 is eventually removed, whatever its callback
\* does on each invocation, a failure on every one included.
C30_FiniteEventsEnd ==
    \A id \in EventIds :
        (/\ id \in DOMAIN m_events
         /\ id \in m_globalEvents
         /\ m_events[id].repeats > 0) ~> (id \notin DOMAIN m_events)

\* An Update removes a GLOBAL one-shot event whose only invocation failed,
\* and one that was to fire twice whose last invocation failed.
C30_Witness ==
    /\ timedLast.op = "Update"
    /\ \E e \in timedLast.expired :
         /\ e.objectType = "GLOBAL"
         /\ e.repeats = 1
         /\ e.id \in timedLast.reported
    /\ \E e \in timedLast.expired :
         /\ e.objectType = "GLOBAL"
         /\ e.repeats = 2
         /\ e.fired = 2
         /\ e.id \in timedLast.reported
    /\ \A e \in timedLast.expired : e.id \notin DOMAIN m_events

\* C31: a stored event with repeats = n > 0 has 1 <= remainingRepeats <= n and
\* one with repeats = 0 has remainingRepeats = 0; an event is registered with
\* remainingRepeats = repeats, an Update / UpdateObjectEvents call in which
\* its elapsed reaches its delay takes exactly 1 from the remainingRepeats of
\* an event with repeats > 0, and no other call changes it.
C31_RemainingRepeats ==
    [][ /\ \A id \in DOMAIN m_events' :
             LET event == m_events'[id] IN
             /\ event.repeats > 0 =>
                  (1 <= event.remainingRepeats /\ event.remainingRepeats <= event.repeats)
             /\ event.repeats = 0 => event.remainingRepeats = 0
        /\ timedLast'.op \in TimedRegisterOps =>
             /\ timedLast'.ret \in DOMAIN m_events'
             /\ m_events'[timedLast'.ret].remainingRepeats =
                    m_events'[timedLast'.ret].repeats
        /\ \A id \in DOMAIN m_events \cap DOMAIN m_events' :
             LET event == m_events[id]
                 due == /\ timedLast'.op \in UpdateOps
                        /\ id \in Scanned
                        /\ event.elapsed + timedLast'.diff >= event.delay
             IN /\ m_events'[id].repeats = event.repeats
                /\ m_events'[id].remainingRepeats =
                     IF due /\ event.repeats > 0
                     THEN event.remainingRepeats - 1
                     ELSE event.remainingRepeats
        /\ timedLast'.op \in UpdateOps =>
             \A id \in Scanned \ DOMAIN m_events' :
                 /\ m_events[id].remainingRepeats = 1
                 /\ m_events[id].elapsed + timedLast'.diff >= m_events[id].delay ]_vars

\* After an Update in which both came due, an event registered with
\* repeats = 2 is stored with one repeat left and an event with repeats = 0
\* is stored with remainingRepeats 0.
C31_Witness ==
    /\ timedLast.op = "Update"
    /\ \E id \in DOMAIN m_events :
         /\ m_events[id].repeats = 2
         /\ m_events[id].remainingRepeats = 1
         /\ id \in timedLast.invoked
    /\ \E id \in DOMAIN m_events :
         /\ m_events[id].repeats = 0
         /\ m_events[id].remainingRepeats = 0
         /\ id \in timedLast.invoked

\* GetActiveEventCount / GetGlobalEventCount / GetObjectEventCount
GetActiveEventCount == Cardinality(DOMAIN m_events)

GetGlobalEventCount == Cardinality(m_globalEvents)

GetObjectEventCount(objectGuid) ==
    IF objectGuid \in DOMAIN m_objectEvents
    THEN Cardinality(m_objectEvents[objectGuid]) ELSE 0

RECURSIVE SumOfCounts(_)
SumOfCounts(guids) ==
    IF guids = {} THEN 0
    ELSE LET g == CHOOSE x \in guids : TRUE
         IN GetObjectEventCount(g) + SumOfCounts(guids \ {g})

\* m_events and the two indexes describe the same events.
IndexesAgree ==
    /\ \A id \in DOMAIN m_events :
         LET inGlobal == id \in m_globalEvents
             holders == {g \in DOMAIN m_objectEvents : id \in m_objectEvents[g]}
         IN /\ inGlobal => holders = {}
            /\ ~inGlobal => holders = {m_events[id].objectGuid}
    /\ m_globalEvents \subseteq DOMAIN m_events
    /\ \A g \in DOMAIN m_objectEvents :
         /\ m_objectEvents[g] \subseteq DOMAIN m_events
         /\ m_objectEvents[g] # {}
    /\ GetActiveEventCount = GetGlobalEventCount + SumOfCounts(ObjectGuids)

C33_NoAccessAfterSelfRemoval ==
    [][ ( /\ InTimedCallback
          /\ \/ update' = Crashed
             \/ (update'.active /\ update'.running = 0) )
        => update.running \in DOMAIN m_events ]_vars

\* C35: given the same Register*, RemoveEvent, RemoveObjectEvents,
\* RemoveAllGlobalEvents, Update, UpdateObjectEvents and Clear calls, made one
\* after another, with callbacks that do the same, the scheduler with hash
\* set indexes and the scheduler with vector indexes return the same ids,
\* booleans and counts, invoke the same set of callbacks in each Update call
\* (and log the same failures and expiries), and store the same events with
\* the same elapsed and remainingRepeats.
C35_VariantsAgree ==
    /\ eclipseLast = timedLast
    /\ eclipse.m_events = m_events

\* An Update invokes two callbacks on both schedulers after RemoveEvent has
\* swapped the last id of the vector into the place of the first.
C35_Witness ==
    /\ timedLast.op = "Update"
    /\ timedLast.invoked = {2, 3}
    /\ eclipse.m_globalEvents = <<3, 2>>
    /\ m_globalEvents = {2, 3}

\* A thread inside a callback that ExecuteEvent has invoked.
InScheduledCallback(t) == threads[t].pc = "callback"

\* C36: a callback of the scheduler runs with the global recursive Lua
\* mutex held by its thread: of the threads inside UpdateObjectEvents at most
\* one is inside a callback; a callback that calls back into the scheduler on
\* its thread goes on holding the mutex, is not blocked by it and can return
\* (as long as no unsynchronized access of another thread has stopped the
\* process).
C36_CallbacksUnderMutex ==
    /\ [](\A t, u \in Threads :
            (InScheduledCallback(t) /\ InScheduledCallback(u)) => t = u)
    /\ [](\A t \in Threads :
            InScheduledCallback(t) =>
                /\ s_luaMutex.owner = t
                /\ s_luaMutex.count >= 1
                /\ Running => ENABLED ThreadUnlocks(t))
    /\ [][\A t \in Threads :
            (InScheduledCallback(t) /\ timedLast' # timedLast) =>
                /\ threads' = threads
                /\ s_luaMutex' = s_luaMutex
                /\ timedLast'.op = "RegisterObjectEvent"]_vars

\* One thread is inside a callback with the mutex while the other one, due
\* to run a callback too, waits at the LuaGuard of ExecuteEvent.
C36_Witness ==
    \E t, u \in Threads :
        /\ t # u
        /\ InScheduledCallback(t)
        /\ threads[u].pc = "lock"
        /\ s_luaMutex.owner = t
        /\ ~ ENABLED ThreadLocks(u)

\* C37: obj:RemoveEvent(eventId), given the id of a global event or of an
\* event bound to another object than obj, removes nothing and returns
\* false.
C37_RemovesOwnEventsOnly ==
    [][ ( /\ timedLast'.op = "RemoveObjectEvent"
          /\ timedLast'.eventId \in DOMAIN m_events
          /\ \/ m_events[timedLast'.eventId].objectType = "GLOBAL"
             \/ m_events[timedLast'.eventId].objectGuid # timedLast'.obj.guid )
        => /\ timedLast'.ret = FALSE
           /\ m_events' = m_events
           /\ m_globalEvents' = m_globalEvents
           /\ m_objectEvents' = m_objectEvents ]_vars

\* C38: when ALEManager::Initialize returns false after it has initialized
\* the EventManager (the configuration enables the engine), the components
\* are shut down again: IsInitialized() is false, the EventManager is
\* uninitialized and has no handlers, the StateManager is uninitialized and
\* holds no state (and with it no TimedEventManager).
C38_FailedInitializeShutsDown ==
    [][ ( /\ aleLast'.op = "Initialize"
          /\ ~aleManager.m_initialized
          /\ aleLast'.enabled
          /\ aleLast'.ret = FALSE )
        => /\ ~aleManager'.m_initialized
           /\ ~m_initialized'
           /\ m_globalHandlers' = EmptyMap
           /\ m_entryHandlers' = EmptyMap
           /\ m_uniqueHandlers' = EmptyMap
           /\ ~stateManager'.m_initialized
           /\ stateManager'.m_states = {} ]_vars

\* C39: Get(filepath) returns an entry only if the modification time the
\* file has at the call equals the last_modified of the entry; a Get of a
\* cached file whose modification time differs returns nullptr and erases
\* the entry.
C39_GetChecksModTime ==
    [][ cacheLast'.op = "Get" =>
          LET filepath == cacheLast'.filepath IN
          /\ cacheLast'.hit => cacheLast'.stamp = files[filepath]
          /\ (filepath \in DOMAIN m_cache
              /\ m_cache[filepath].last_modified # files[filepath])
             => (~cacheLast'.hit /\ filepath \notin DOMAIN m_cache') ]_vars

\* C40: an Update fires every event it scans whose elapsed time plus the
\* diff, added as numbers, reaches its delay: the uint32 addition does not
\* wrap to a value below the delay.  (Up to its first wrap the elapsed of an
\* event is the sum of the diffs since it last fired, so this is the event
\* firing in the first Update at which that sum reaches the delay.)
C40_NoWrapPostponesFiring ==
    [][ timedLast'.op = "Update" =>
          \A id \in m_globalEvents \cap DOMAIN m_events :
              m_events[id].elapsed + timedLast'.diff >= m_events[id].delay
                  => id \in timedLast'.invoked ]_vars

\* C11: every eventId returned by RegisterGlobalEvent / RegisterObjectEvent
\* is greater than every eventId the manager returned before, whatever
\* Register, Remove*, Update* and Clear calls were made in between.
C11_EventIdsIncrease ==
    [][ timedLast'.op \in TimedRegisterOps => timedLast'.ret > timedIssued ]_vars

====
